---------------------------- MODULE Spec2Model ----------------------------
(***************************************************************************)
(* ClawKangsar: the shared browser handle (internal/tools/browser.go) and  *)
(* the durable session store (internal/core, SessionStore).                *)
(*                                                                         *)
(* SpecBrowser is the Browser state machine: Browse (normalizeURL,         *)
(* acquireBrowser, navigation, touch), the watchdog goroutine (KillIfIdle) *)
(* and Close, interleaved statement block by statement block.              *)
(* SpecStore is the SessionStore: AddMessage, Save step by step on a       *)
(* modelled file system, process crash and reload.                         *)
(* SpecRouter and SpecPersist are Agent.Process (internal/core/agent.go):  *)
(* remember, the routing of /status, /fetch and /browse, and Stats.        *)
(* SpecTracker is the statusTracker of main, SpecMain the start-up and     *)
(* shutdown of main with its gateway runner goroutines.                    *)
(* SpecReply is Process with tool texts around the reply limit, SpecNav    *)
(* the Browser with its clock in quarters of a minute.                     *)
(***************************************************************************)
EXTENDS Integers, Sequences, FiniteSets, TLC

\* ------------------------------------------------------------------ bounds
\* goroutines that call Browse / Close (gateway handlers, main)
NumWorkers == 2
\* Browse and Close calls made in one run
MaxOps == 3
\* minutes the wall clock advances in one run
MaxTime == 3
\* AddMessage calls made in one run
MaxMsgs == 2
\* direct Save calls made in one run
MaxSaves == 1
\* process crashes (each followed by a restart on the same storage root)
MaxCrashes == 1

\* History, SessionCount and TotalMessageCount calls made in one run
MaxReads == 2
\* Process calls made in one run on an Agent with a store
MaxProcess == 2
\* Process calls made in one run on an Agent without a store
MaxBuffered == 130
\* length of the longest text a tool returns
MaxPage == 1300
\* quarters of a minute the wall clock advances in one run of SpecNav
MaxQuarters == 9

\* ------------------------------------------------------- program constants
\* NewAgent: maxMemory: 128
maxMemory == 128
\* Process: the max of its truncate(text, 1200) calls
maxReply == 1200
\* defaultIdleTimeout = 5 * time.Minute, in minutes (one watchdog tick)
defaultIdleTimeout == 5
\* defaultNavTimeout = 45 * time.Second, in quarters of a minute
defaultNavTimeout == 3

VARIABLES
    \* Browser fields
    idleTimeout,    \* b.idleTimeout, minutes
    mu,             \* b.mu: the executor holding it, or NoOwner
    allocCancel,    \* b.allocCancel: Nil or the instance it cancels
    browserCancel,  \* b.browserCancel: Nil or the instance it cancels
    browserCtx,     \* b.browserCtx: Nil or the live instance
    lastUsed,       \* b.lastUsed: ZeroTime or a clock value
    watchdogStop,   \* channel b.watchdogStop is closed
    watchdogDone,   \* channel b.watchdogDone is closed
    \* goroutines
    pc,             \* position of each worker and of the watchdog
    handle,         \* per worker: the context it is starting or navigating on
    ret,            \* the last return of a call: <<worker, value>>
    tickPending,    \* a tick is waiting in ticker.C
    now,            \* wall clock (minutes; in SpecNav quarters of a minute)
    panicked,       \* the process died of a runtime panic
    \* the external processes and the history the properties read
    proc,           \* per instance: "none", "starting", "up", "failed", "killed"
    bCalls,         \* per instance: calls of its browser cancel function
    aCalls,         \* per instance: calls of its allocator cancel function
    starts,         \* chromedp allocations made so far
    ops,            \* Browse and Close calls made so far
    acqPre,         \* per worker: the Browser fields when its start began
    acqRet,         \* acquireBrowser calls that have returned
    acqGot,         \* the handles acquireBrowser has returned
    conc,           \* every worker was waiting in acquireBrowser at one time
    lastTouch       \* time the stored handle was last acquired or touched

browserVars == <<idleTimeout, mu, allocCancel, browserCancel, browserCtx,
                 lastUsed, watchdogStop, watchdogDone, pc, handle, ret,
                 tickPending, now, panicked, proc, bCalls, aCalls, starts, ops,
                 acqPre, acqRet, acqGot, conc, lastTouch>>

VARIABLES
    \* SessionStore fields
    persistent,     \* s.storage != ""
    sessions,       \* s.sessions: key -> message sequence
    \* the storage root
    disk,           \* target files: sanitized name -> content
    tmp,            \* per worker: the temp file of its Save, or NoFile
    orphans,        \* temp files left behind in the storage root
    \* goroutines
    spc,            \* position of each worker in AddMessage / Save
    skey,           \* per worker: <<call, sessionKey of its Save, message>>
    snap,           \* per worker: the snapshot its Save took
    sret,           \* the last return of a call: <<worker, call, value>>
    \* history
    sent,           \* AddMessage calls made so far
    saves,          \* direct Save calls made so far
    crashes,        \* crashes so far
    failed          \* a call of this process returned an error

storeVars == <<persistent, sessions, disk, tmp, orphans, spc, skey, snap, sret,
               sent, saves, crashes, failed>>

VARIABLES
    \* callers of the SessionStore read methods
    hist,           \* the slice History returned last: key, elements, backing array
    seen,           \* the elements of that slice when History returned
    cnt,            \* the last result of SessionCount / TotalMessageCount
    reads           \* read calls made so far

readVars == <<hist, seen, cnt, reads>>

VARIABLES
    \* Agent fields
    agentStore,     \* a.sessions != nil
    browserTool,    \* a.browser != nil
    webFetch,       \* a.webFetch != nil
    memory,         \* a.memory
    \* goroutines in Process
    apc,            \* position of each worker in Process / remember
    amsg,           \* per worker: the message of its Process call
    \* history
    processed,      \* Process calls with a non-blank text made so far
    done,           \* the messages of the calls that returned (Agent with a store)
    aret,           \* the last return of Process: <<worker, reply, err>>
    acall           \* the last call of Process: <<worker, its text is blank>>

agentVars == <<agentStore, browserTool, webFetch, memory, apc, amsg, processed,
               done, aret, acall>>

VARIABLES
    \* statusTracker
    gateways,       \* s.gateways: name -> record
    tpc,            \* position of the health handler in snapshot
    tcopy,          \* the copy of the records its snapshot made
    tret,           \* the last return of ready / snapshot: <<call, value>>
    \* main and the goroutines it starts
    mpc,            \* position of main
    sig,            \* ctx of signal.NotifyContext is done
    rpc,            \* position of the goroutine of each runner
    hpc             \* position of the health server goroutine

mainVars == <<gateways, tpc, tcopy, tret, mpc, sig, rpc, hpc>>

vars == <<browserVars, storeVars, readVars, agentVars, mainVars>>

\* what the actions of the Browser, and of the SessionStore, leave alone
notBrowser == <<storeVars, readVars, agentVars, mainVars>>
notStore == <<browserVars, readVars, agentVars, mainVars>>

\* ------------------------------------------------------------- vocabulary
Workers == 1..NumWorkers
WD == 0
Executors == Workers \cup {WD}
NoOwner == -1
Nil == 0
ZeroTime == 0
Instances == 1..MaxOps
\* idleTimeout values NewBrowser is constructed with, in units of the wall
\* clock (minutes; in SpecNav quarters of a minute)
ConfiguredIdle == {2}
\* watchdogLoop: time.NewTicker(time.Minute), in quarters of a minute
TickEvery == 4

\* ------------------------------------------------------------ normalizeURL
\* Strings are sequences of one-character strings.
Letters == {"a", "e", "f", "h", "p", "s", "t", "x"}

RECURSIVE TrimLeft(_)
TrimLeft(s) == IF s # <<>> /\ Head(s) = " " THEN TrimLeft(Tail(s)) ELSE s

RECURSIVE TrimRight(_)
TrimRight(s) ==
    IF s # <<>> /\ s[Len(s)] = " " THEN TrimRight(SubSeq(s, 1, Len(s) - 1)) ELSE s

TrimSpace(s) == TrimRight(TrimLeft(s))

\* strings.Index: the first position of sub in s, 0 if none
IndexOf(s, sub) ==
    LET hits == {i \in 1..(Len(s) - Len(sub) + 1) : SubSeq(s, i, i + Len(sub) - 1) = sub}
    IN  IF hits = {} THEN 0 ELSE CHOOSE i \in hits : \A j \in hits : i <= j

Contains(s, sub) == IndexOf(s, sub) # 0

SchemeSep == <<":", "/", "/">>
HttpsPrefix == <<"h", "t", "t", "p", "s", ":", "/", "/">>

\* url.Parse, for inputs over Letters, ".", ":", "/" and " ": the scheme is the
\* letters before the first ":", the host what follows "//" up to the next "/".
\* A space inside the host is a parse error.
ParseScheme(s) ==
    LET c == IndexOf(s, <<":">>)
    IN  IF c > 1 /\ \A i \in 1..(c - 1) : s[i] \in Letters THEN SubSeq(s, 1, c - 1) ELSE <<>>

ParseRest(s) ==
    LET sch == ParseScheme(s)
    IN  IF sch = <<>> THEN s ELSE SubSeq(s, Len(sch) + 2, Len(s))

ParseHost(s) ==
    LET r == ParseRest(s)
    IN  IF Len(r) >= 2 /\ SubSeq(r, 1, 2) = <<"/", "/">>
        THEN LET a == SubSeq(r, 3, Len(r))
                 e == IndexOf(a, <<"/">>)
             IN  IF e = 0 THEN a ELSE SubSeq(a, 1, e - 1)
        ELSE <<>>

ParseOK(s) ==
    /\ ~(ParseScheme(s) = <<>> /\ s # <<>> /\ Head(s) = ":")
    /\ ~Contains(ParseHost(s), <<" ">>)

\* normalizeURL: [ok |-> accepted, url |-> the normalized target]
normalizeURL(rawURL) ==
    LET value == TrimSpace(rawURL)
        full  == IF Contains(value, SchemeSep) THEN value ELSE HttpsPrefix \o value
        sch   == ParseScheme(full)
    IN  IF value = <<>> THEN [ok |-> FALSE, url |-> <<>>]
        ELSE IF ~ParseOK(full) THEN [ok |-> FALSE, url |-> <<>>]
        ELSE IF sch # <<"h", "t", "t", "p">> /\ sch # <<"h", "t", "t", "p", "s">>
             THEN [ok |-> FALSE, url |-> <<>>]
        ELSE IF ParseHost(full) = <<>> THEN [ok |-> FALSE, url |-> <<>>]
        ELSE [ok |-> TRUE, url |-> full]

\* the targets Browse is called with
RawURLs == { <<>>, <<" ">>, <<"e", ".", "x">>, <<" ", "e", ".", "x", " ">>,
             <<"f", "t", "p", ":", "/", "/", "x">>, HttpsPrefix,
             <<"h", "t", "t", "p", ":", "/", "/", "e">> }

\* normalizeURL on each of these targets
Normalized == [u \in RawURLs |-> normalizeURL(u)]

\* --------------------------------------------------------------- NewBrowser
InitBrowser ==
    /\ idleTimeout \in {IF c <= 0 THEN defaultIdleTimeout ELSE c : c \in ConfiguredIdle}
    /\ mu = NoOwner
    /\ allocCancel = Nil
    /\ browserCancel = Nil
    /\ browserCtx = Nil
    /\ lastUsed = ZeroTime
    /\ watchdogStop = FALSE
    /\ watchdogDone = FALSE
    /\ pc = [e \in Executors |-> IF e = WD THEN "select" ELSE "idle"]
    /\ handle = [w \in Workers |-> Nil]
    /\ ret = <<>>
    /\ tickPending = FALSE
    /\ now = 1
    /\ panicked = FALSE
    /\ proc = [i \in Instances |-> "none"]
    /\ bCalls = [i \in Instances |-> 0]
    /\ aCalls = [i \in Instances |-> 0]
    /\ starts = 0
    /\ ops = 0
    /\ acqPre = [w \in Workers |-> <<>>]
    /\ acqRet = 0
    /\ acqGot = {}
    /\ conc = FALSE
    /\ lastTouch = ZeroTime

\* ------------------------------------------------------------------ helpers
Running == ~panicked

\* the fields acquireBrowser and killLocked write
Fields == <<browserCtx, allocCancel, browserCancel, lastUsed>>

\* -------------------------------------------------------------------- Browse
\* a Browse that acquires the browser before it looks at the target
BrowseCallAcquireFirst(w, rawURL) ==
    /\ Running
    /\ pc[w] = "idle"
    /\ ops < MaxOps
    /\ ops' = ops + 1
    /\ pc' = [pc EXCEPT ![w] = "acq_lock"]
    /\ ret' = IF Normalized[rawURL].ok THEN ret ELSE <<w, "err_url">>
    /\ conc' = (conc \/ \A v \in Workers : pc'[v] = "acq_lock")
    /\ UNCHANGED <<idleTimeout, mu, allocCancel, browserCancel, browserCtx, lastUsed,
                   watchdogStop, watchdogDone, handle, tickPending, now, panicked,
                   proc, bCalls, aCalls, starts, acqPre, acqRet, acqGot, lastTouch>>

\* Browse up to acquireBrowser: normalizeURL and its early return
BrowseCall(w, rawURL) ==
    /\ Running
    /\ pc[w] = "idle"
    /\ ops < MaxOps
    /\ ops' = ops + 1
    /\ IF Normalized[rawURL].ok
       THEN /\ pc' = [pc EXCEPT ![w] = "acq_lock"]
            /\ ret' = ret
       ELSE /\ pc' = pc
            /\ ret' = <<w, "err_url">>
    /\ conc' = (conc \/ \A v \in Workers : pc'[v] = "acq_lock")
    /\ UNCHANGED <<idleTimeout, mu, allocCancel, browserCancel, browserCtx, lastUsed,
                   watchdogStop, watchdogDone, handle, tickPending, now, panicked,
                   proc, bCalls, aCalls, starts, acqPre, acqRet, acqGot, lastTouch>>

\* acquireBrowser without b.mu.Lock(): it runs while another executor holds b.mu
AcquireLockNoMutex(w) ==
    /\ Running
    /\ pc[w] = "acq_lock"
    /\ IF browserCtx # Nil
       THEN /\ lastUsed' = now
            /\ lastTouch' = now
            /\ handle' = [handle EXCEPT ![w] = browserCtx]
            /\ acqRet' = acqRet + 1
            /\ acqGot' = acqGot \cup {browserCtx}
            /\ pc' = [pc EXCEPT ![w] = "nav"]
            /\ UNCHANGED <<proc, starts, acqPre>>
       ELSE /\ starts' = starts + 1
            /\ proc' = [proc EXCEPT ![starts + 1] = "starting"]
            /\ handle' = [handle EXCEPT ![w] = starts + 1]
            /\ acqPre' = [acqPre EXCEPT ![w] = Fields]
            /\ pc' = [pc EXCEPT ![w] = "acq_run"]
            /\ UNCHANGED <<lastUsed, lastTouch, acqRet, acqGot>>
    /\ UNCHANGED <<idleTimeout, mu, allocCancel, browserCancel, browserCtx,
                   watchdogStop, watchdogDone, ret, tickPending, now, panicked,
                   bCalls, aCalls, ops, conc>>

\* acquireBrowser without its browserCtx != nil test: every call starts a browser
AcquireLockNoCheck(w) ==
    /\ Running
    /\ pc[w] = "acq_lock"
    /\ mu = NoOwner
    /\ starts' = starts + 1
    /\ proc' = [proc EXCEPT ![starts + 1] = "starting"]
    /\ handle' = [handle EXCEPT ![w] = starts + 1]
    /\ acqPre' = [acqPre EXCEPT ![w] = Fields]
    /\ mu' = w
    /\ pc' = [pc EXCEPT ![w] = "acq_run"]
    /\ UNCHANGED <<idleTimeout, allocCancel, browserCancel, browserCtx, lastUsed,
                   lastTouch, acqRet, acqGot, watchdogStop, watchdogDone, ret,
                   tickPending, now, panicked, bCalls, aCalls, ops, conc>>

\* acquireBrowser: Lock, then either the live handle is marked used and returned
\* (Unlock), or the allocator and browser contexts of a new instance are created
AcquireLock(w) ==
    /\ Running
    /\ pc[w] = "acq_lock"
    /\ mu = NoOwner
    /\ IF browserCtx # Nil
       THEN /\ lastUsed' = now
            /\ lastTouch' = now
            /\ handle' = [handle EXCEPT ![w] = browserCtx]
            /\ acqRet' = acqRet + 1
            /\ acqGot' = acqGot \cup {browserCtx}
            /\ mu' = NoOwner
            /\ pc' = [pc EXCEPT ![w] = "nav"]
            /\ UNCHANGED <<proc, starts, acqPre>>
       ELSE /\ starts' = starts + 1
            /\ proc' = [proc EXCEPT ![starts + 1] = "starting"]
            /\ handle' = [handle EXCEPT ![w] = starts + 1]
            /\ acqPre' = [acqPre EXCEPT ![w] = Fields]
            /\ mu' = w
            /\ pc' = [pc EXCEPT ![w] = "acq_run"]
            /\ UNCHANGED <<lastUsed, lastTouch, acqRet, acqGot>>
    /\ UNCHANGED <<idleTimeout, allocCancel, browserCancel, browserCtx, watchdogStop,
                   watchdogDone, ret, tickPending, now, panicked, bCalls, aCalls,
                   ops, conc>>

\* acquireBrowser whose error path cancels the browser context only and leaves
\* the allocator running
AcquireRunLeak(w, ok) ==
    /\ Running
    /\ pc[w] = "acq_run"
    /\ IF ok
       THEN /\ allocCancel' = handle[w]
            /\ browserCancel' = handle[w]
            /\ browserCtx' = handle[w]
            /\ lastUsed' = now
            /\ lastTouch' = now
            /\ proc' = [proc EXCEPT ![handle[w]] = "up"]
            /\ acqGot' = acqGot \cup {handle[w]}
            /\ pc' = [pc EXCEPT ![w] = "nav"]
            /\ UNCHANGED <<bCalls, aCalls, ret, handle>>
       ELSE /\ bCalls' = [bCalls EXCEPT ![handle[w]] = @ + 1]
            /\ proc' = [proc EXCEPT ![handle[w]] = "failed"]
            /\ ret' = <<w, "err_start">>
            /\ handle' = [handle EXCEPT ![w] = Nil]
            /\ pc' = [pc EXCEPT ![w] = "idle"]
            /\ UNCHANGED <<allocCancel, browserCancel, browserCtx, lastUsed,
                           lastTouch, acqGot, aCalls>>
    /\ acqRet' = acqRet + 1
    /\ acqPre' = [acqPre EXCEPT ![w] = <<>>]
    /\ mu' = NoOwner
    /\ UNCHANGED <<idleTimeout, watchdogStop, watchdogDone, tickPending, now,
                   panicked, starts, ops, conc>>

\* acquireBrowser: chromedp.Run(browserCtx) returned; on an error both new
\* contexts are cancelled and the error is returned, else the handle is stored.
\* Then the deferred Unlock.
AcquireRun(w, ok) ==
    /\ Running
    /\ pc[w] = "acq_run"
    /\ IF ok
       THEN /\ allocCancel' = handle[w]
            /\ browserCancel' = handle[w]
            /\ browserCtx' = handle[w]
            /\ lastUsed' = now
            /\ lastTouch' = now
            /\ proc' = [proc EXCEPT ![handle[w]] = "up"]
            /\ acqGot' = acqGot \cup {handle[w]}
            /\ pc' = [pc EXCEPT ![w] = "nav"]
            /\ UNCHANGED <<bCalls, aCalls, ret, handle>>
       ELSE /\ bCalls' = [bCalls EXCEPT ![handle[w]] = @ + 1]
            /\ aCalls' = [aCalls EXCEPT ![handle[w]] = @ + 1]
            /\ proc' = [proc EXCEPT ![handle[w]] = "failed"]
            /\ ret' = <<w, "err_start">>
            /\ handle' = [handle EXCEPT ![w] = Nil]
            /\ pc' = [pc EXCEPT ![w] = "idle"]
            /\ UNCHANGED <<allocCancel, browserCancel, browserCtx, lastUsed,
                           lastTouch, acqGot>>
    /\ acqRet' = acqRet + 1
    /\ acqPre' = [acqPre EXCEPT ![w] = <<>>]
    /\ mu' = NoOwner
    /\ UNCHANGED <<idleTimeout, watchdogStop, watchdogDone, tickPending, now,
                   panicked, starts, ops, conc>>

\* Browse: chromedp.Run(navCtx, Navigate, WaitReady, Evaluate) returned. It can
\* succeed only on a browser that is still up; it fails on a timeout, a
\* navigation error or a cancelled parent context.
Navigate(w, ok) ==
    /\ Running
    /\ pc[w] = "nav"
    /\ ok => proc[handle[w]] = "up"
    /\ pc' = [pc EXCEPT ![w] = IF ok THEN "touch_ok" ELSE "touch_err"]
    /\ handle' = [handle EXCEPT ![w] = Nil]
    /\ UNCHANGED <<idleTimeout, mu, allocCancel, browserCancel, browserCtx, lastUsed,
                   watchdogStop, watchdogDone, ret, tickPending, now,
                   panicked, proc, bCalls, aCalls, starts, ops, acqPre, acqRet, acqGot, conc, lastTouch>>

\* Browse that tears the shared handle down when the navigation failed
TouchKillOnError(w) ==
    /\ Running
    /\ pc[w] \in {"touch_ok", "touch_err"}
    /\ mu = NoOwner
    /\ IF pc[w] = "touch_err" /\ browserCtx # Nil
       THEN /\ bCalls' = [bCalls EXCEPT ![browserCancel] = @ + 1]
            /\ aCalls' = [aCalls EXCEPT ![allocCancel] = @ + 1]
            /\ proc' = [proc EXCEPT ![browserCancel] = "killed"]
            /\ browserCancel' = Nil
            /\ allocCancel' = Nil
            /\ browserCtx' = Nil
            /\ lastUsed' = ZeroTime
            /\ lastTouch' = ZeroTime
       ELSE /\ lastUsed' = now
            /\ lastTouch' = now
            /\ UNCHANGED <<bCalls, aCalls, proc, browserCancel, allocCancel, browserCtx>>
    /\ ret' = <<w, IF pc[w] = "touch_err" THEN "err_nav" ELSE "ok">>
    /\ pc' = [pc EXCEPT ![w] = "idle"]
    /\ UNCHANGED <<idleTimeout, mu, watchdogStop, watchdogDone, handle, tickPending,
                   now, panicked, starts, ops, acqPre, acqRet, acqGot, conc>>

\* Browse: b.touch() (Lock, lastUsed = now, Unlock), then the return of the
\* body or of the wrapped navigation error
Touch(w) ==
    /\ Running
    /\ pc[w] \in {"touch_ok", "touch_err"}
    /\ mu = NoOwner
    /\ lastUsed' = now
    /\ lastTouch' = now
    /\ ret' = <<w, IF pc[w] = "touch_err" THEN "err_nav" ELSE "ok">>
    /\ pc' = [pc EXCEPT ![w] = "idle"]
    /\ UNCHANGED <<idleTimeout, mu, allocCancel, browserCancel, browserCtx,
                   watchdogStop, watchdogDone, handle, tickPending, now, panicked,
                   proc, bCalls, aCalls, starts, ops, acqPre, acqRet, acqGot, conc>>

\* ---------------------------------------------------------------- killLocked
\* killLocked, called with b.mu held by e; then the caller's deferred Unlock
\* and return (KillIfIdle returns true to the watchdog, Close returns nil)
killLocked(e) ==
    /\ Running
    /\ pc[e] = "k_locked"
    /\ IF browserCtx = Nil
       THEN UNCHANGED <<browserCancel, allocCancel, browserCtx, lastUsed, lastTouch,
                        bCalls, aCalls, proc>>
       ELSE /\ IF browserCancel # Nil
               THEN /\ bCalls' = [bCalls EXCEPT ![browserCancel] = @ + 1]
                    /\ proc' = [proc EXCEPT ![browserCancel] = "killed"]
               ELSE UNCHANGED <<bCalls, proc>>
            /\ browserCancel' = Nil
            /\ IF allocCancel # Nil
               THEN aCalls' = [aCalls EXCEPT ![allocCancel] = @ + 1]
               ELSE UNCHANGED aCalls
            /\ allocCancel' = Nil
            /\ browserCtx' = Nil
            /\ lastUsed' = ZeroTime
            /\ lastTouch' = ZeroTime
    /\ mu' = NoOwner
    /\ IF e = WD
       THEN /\ pc' = [pc EXCEPT ![e] = "select"]
            /\ ret' = <<e, "true">>
       ELSE /\ pc' = [pc EXCEPT ![e] = "idle"]
            /\ ret' = <<e, "closed">>
    /\ UNCHANGED <<idleTimeout, watchdogStop, watchdogDone, handle, tickPending, now,
                   panicked, starts, ops, acqPre, acqRet, acqGot, conc>>

\* ------------------------------------------------------------------ watchdog
\* the wall clock advances one unit, and the ticker of a running watchdog
\* fires when its period ends with it
Advance(fire) ==
    /\ Running
    /\ now' = now + 1
    /\ tickPending' = IF fire THEN pc[WD] # "exited" ELSE tickPending
    /\ UNCHANGED <<idleTimeout, mu, allocCancel, browserCancel, browserCtx, lastUsed,
                   watchdogStop, watchdogDone, pc, handle, ret, panicked, proc,
                   bCalls, aCalls, starts, ops, acqPre, acqRet, acqGot, conc, lastTouch>>

\* the wall clock advances one minute; the ticker of a running watchdog fires
ClockTick == now < MaxTime /\ Advance(TRUE)

\* the wall clock advances a quarter of a minute; the ticker fires every
\* TickEvery quarters after NewBrowser; the navigation of worker w, the only
\* caller, has returned before defaultNavTimeout is over (w acquired or
\* started the handle at lastUsed)
ClockQuarter(w) ==
    /\ now < MaxQuarters
    /\ (pc[w] = "nav" /\ lastUsed # ZeroTime) => now + 1 - lastUsed <= defaultNavTimeout
    /\ Advance(now % TickEvery = 0)

\* watchdogLoop: case <-ticker.C
WatchdogTick ==
    /\ Running
    /\ pc[WD] = "select"
    /\ tickPending
    /\ tickPending' = FALSE
    /\ pc' = [pc EXCEPT ![WD] = "killidle"]
    /\ UNCHANGED <<idleTimeout, mu, allocCancel, browserCancel, browserCtx, lastUsed,
                   watchdogStop, watchdogDone, handle, ret, now, panicked, proc,
                   bCalls, aCalls, starts, ops, acqPre, acqRet, acqGot, conc, lastTouch>>

\* watchdogLoop: case <-b.watchdogStop, then the deferred close(b.watchdogDone)
\* and ticker.Stop()
WatchdogStopped ==
    /\ Running
    /\ pc[WD] = "select"
    /\ watchdogStop
    /\ watchdogDone' = TRUE
    /\ tickPending' = FALSE
    /\ pc' = [pc EXCEPT ![WD] = "exited"]
    /\ UNCHANGED <<idleTimeout, mu, allocCancel, browserCancel, browserCtx, lastUsed,
                   watchdogStop, handle, ret, now, panicked, proc, bCalls, aCalls,
                   starts, ops, acqPre, acqRet, acqGot, conc, lastTouch>>

\* time.Since(b.lastUsed) in units of the wall clock; Since the zero time saturates at the
\* maximal duration, which is above every idle timeout
SinceLastUsed == IF lastUsed = ZeroTime THEN idleTimeout + 1 ELSE now - lastUsed

\* KillIfIdle without b.mu.Lock()
KillIfIdleNoLock ==
    /\ Running
    /\ pc[WD] = "killidle"
    /\ IF browserCtx = Nil \/ SinceLastUsed < idleTimeout
       THEN /\ pc' = [pc EXCEPT ![WD] = "select"]
            /\ ret' = <<WD, "false">>
       ELSE /\ ret' = ret
            /\ pc' = [pc EXCEPT ![WD] = "k_locked"]
    /\ UNCHANGED <<idleTimeout, mu, allocCancel, browserCancel, browserCtx, lastUsed,
                   watchdogStop, watchdogDone, handle, tickPending, now,
                   panicked, proc, bCalls, aCalls, starts, ops, acqPre, acqRet,
                   acqGot, conc, lastTouch>>

\* KillIfIdle without its idle test: every tick tears a live handle down
KillIfIdleNoIdleTest ==
    /\ Running
    /\ pc[WD] = "killidle"
    /\ mu = NoOwner
    /\ IF browserCtx = Nil
       THEN /\ pc' = [pc EXCEPT ![WD] = "select"]
            /\ ret' = <<WD, "false">>
            /\ mu' = NoOwner
       ELSE /\ mu' = WD
            /\ ret' = ret
            /\ pc' = [pc EXCEPT ![WD] = "k_locked"]
    /\ UNCHANGED <<idleTimeout, allocCancel, browserCancel, browserCtx, lastUsed,
                   watchdogStop, watchdogDone, handle, tickPending, now,
                   panicked, proc, bCalls, aCalls, starts, ops, acqPre, acqRet,
                   acqGot, conc, lastTouch>>

\* KillIfIdle: Lock, the two early returns (with the deferred Unlock), else
\* killLocked is called
KillIfIdle ==
    /\ Running
    /\ pc[WD] = "killidle"
    /\ mu = NoOwner
    /\ IF browserCtx = Nil \/ SinceLastUsed < idleTimeout
       THEN /\ pc' = [pc EXCEPT ![WD] = "select"]
            /\ ret' = <<WD, "false">>
            /\ mu' = NoOwner
       ELSE /\ mu' = WD
            /\ ret' = ret
            /\ pc' = [pc EXCEPT ![WD] = "k_locked"]
    /\ UNCHANGED <<idleTimeout, allocCancel, browserCancel, browserCtx, lastUsed,
                   watchdogStop, watchdogDone, handle, tickPending, now,
                   panicked, proc, bCalls, aCalls, starts, ops, acqPre, acqRet, acqGot, conc, lastTouch>>

\* --------------------------------------------------------------------- Close
\* Close: the select on watchdogDone; its default case closes watchdogStop,
\* and closing a closed channel is a runtime panic
CloseCall(w) ==
    /\ Running
    /\ pc[w] = "idle"
    /\ ops < MaxOps
    /\ ops' = ops + 1
    /\ IF watchdogDone
       THEN /\ pc' = [pc EXCEPT ![w] = "c_lock"]
            /\ UNCHANGED <<watchdogStop, panicked>>
       ELSE IF watchdogStop
            THEN /\ panicked' = TRUE
                 /\ UNCHANGED <<pc, watchdogStop>>
            ELSE /\ watchdogStop' = TRUE
                 /\ pc' = [pc EXCEPT ![w] = "c_wait"]
                 /\ UNCHANGED panicked
    /\ UNCHANGED <<idleTimeout, mu, allocCancel, browserCancel, browserCtx, lastUsed,
                   watchdogDone, handle, ret, tickPending, now, proc, bCalls, aCalls,
                   starts, acqPre, acqRet, acqGot, conc, lastTouch>>

\* Close: <-b.watchdogDone
CloseWait(w) ==
    /\ Running
    /\ pc[w] = "c_wait"
    /\ watchdogDone
    /\ pc' = [pc EXCEPT ![w] = "c_lock"]
    /\ UNCHANGED <<idleTimeout, mu, allocCancel, browserCancel, browserCtx, lastUsed,
                   watchdogStop, watchdogDone, handle, ret, tickPending, now,
                   panicked, proc, bCalls, aCalls, starts, ops, acqPre, acqRet, acqGot, conc, lastTouch>>

\* Close: b.mu.Lock()
CloseLock(w) ==
    /\ Running
    /\ pc[w] = "c_lock"
    /\ mu = NoOwner
    /\ mu' = w
    /\ pc' = [pc EXCEPT ![w] = "k_locked"]
    /\ UNCHANGED <<idleTimeout, allocCancel, browserCancel, browserCtx, lastUsed,
                   watchdogStop, watchdogDone, handle, ret, tickPending, now,
                   panicked, proc, bCalls, aCalls, starts, ops, acqPre, acqRet, acqGot, conc, lastTouch>>

\* ============================================================ SessionStore
\* Session keys and file names are sequences of one-character strings.
Global == <<"g", "l", "o", "b", "a", "l">>

\* the sessionKey arguments of AddMessage and Save
RawKeys == { <<"a", ":", "b">>, <<"a", "_", "b">>, <<"a", "/", "b">>, <<>> }

\* the sessionKey arguments of direct Save calls: also names Save rejects
SaveKeys == RawKeys \cup { <<".">>, <<".", ".">>, <<"a", "\\", "b">> }

RECURSIVE ReplaceColons(_)
ReplaceColons(s) ==
    IF s = <<>> THEN <<>>
    ELSE <<IF Head(s) = ":" THEN "_" ELSE Head(s)>> \o ReplaceColons(Tail(s))

\* sanitizeSessionFilename
sanitizeSessionFilename(key) == ReplaceColons(TrimSpace(key))

\* filepath.IsLocal on names without a path separator: not empty, not ".."
\* (names with a separator are rejected by the ContainsAny test of Save)
IsLocal(name) == name # <<>> /\ name # <<".", ".">>

\* Save's test of the file name: os.ErrInvalid when it holds
InvalidFilename(name) ==
    \/ name = <<".">>
    \/ ~IsLocal(name)
    \/ \E i \in 1..Len(name) : name[i] \in {"/", "\\"}

\* AddMessage's and History's key: trimmed, "global" when blank
NormalKey(sessionKey) ==
    IF TrimSpace(sessionKey) = <<>> THEN Global ELSE TrimSpace(sessionKey)

\* a file: the session key and messages of the snapshot it was written from,
\* and how much of the JSON payload it holds
NoFile == [key |-> <<>>, msgs |-> <<>>, bytes |-> "none"]
File(key, msgs, bytes) == [key |-> key, msgs |-> msgs, bytes |-> bytes]

\* json.Unmarshal succeeds on a complete payload only
Parses(f) == f.bytes = "full"

\* loadSessions: every target file that parses and has a non-blank key becomes
\* the session of the key it holds
loadSessions(d) ==
    LET good == {n \in DOMAIN d : Parses(d[n]) /\ TrimSpace(d[n].key) # <<>>}
        keys == {d[n].key : n \in good}
    IN  [k \in keys |-> d[CHOOSE n \in good : d[n].key = k].msgs]

NoSessions == [k \in {} |-> <<>>]
NoFiles == [n \in {} |-> NoFile]

\* NewSessionStore on an empty storage root (storage # "") or without one
NewSessionStore(storage) ==
    /\ persistent = storage
    /\ sessions = loadSessions(NoFiles)
    /\ disk = NoFiles
    /\ tmp = [w \in Workers |-> NoFile]
    /\ orphans = {}
    /\ spc = [w \in Workers |-> "idle"]
    /\ skey = [w \in Workers |-> <<>>]
    /\ snap = [w \in Workers |-> <<>>]
    /\ sret = <<>>
    /\ sent = 0
    /\ saves = 0
    /\ crashes = 0
    /\ failed = FALSE

InitStore == \E storage \in BOOLEAN : NewSessionStore(storage)

\* a call of worker w returns value v
Return(w, call, v) ==
    /\ sret' = <<w, call, v>>
    /\ failed' = (failed \/ v # "nil")
    /\ spc' = [spc EXCEPT ![w] = "idle"]
    /\ skey' = [skey EXCEPT ![w] = <<>>]
    /\ snap' = [snap EXCEPT ![w] = <<>>]

\* the call worker w is in: Save is called by AddMessage or directly
CallOf(w) == IF spc[w] = "idle" THEN "none" ELSE skey[w][1]
KeyOf(w) == skey[w][2]

\* an AddMessage that skips a message the session already holds
AddMessageDedup(w, sessionKey, msg) ==
    /\ spc[w] = "idle"
    /\ sent' = sent + 1
    /\ LET key == NormalKey(sessionKey)
           old == IF key \in DOMAIN sessions THEN sessions[key] ELSE <<>>
       IN  /\ sessions' = [k \in DOMAIN sessions \cup {key} |->
                              IF k = key /\ \A i \in 1..Len(old) : old[i] # msg
                              THEN Append(old, msg)
                              ELSE IF k = key THEN old ELSE sessions[k]]
           /\ skey' = [skey EXCEPT ![w] = <<"AddMessage", key, msg>>]
    /\ spc' = [spc EXCEPT ![w] = "save"]
    /\ UNCHANGED <<persistent, disk, tmp, orphans, snap, sret, saves, crashes, failed>>

\* an AddMessage that publishes a new session before the message is in it
AddMessageCreateFirst(w, sessionKey, msg) ==
    /\ spc[w] = "idle"
    /\ sent' = sent + 1
    /\ LET key == NormalKey(sessionKey)
       IN  /\ sessions' = [k \in DOMAIN sessions \cup {key} |->
                              IF k \in DOMAIN sessions
                              THEN (IF k = key THEN Append(sessions[k], msg) ELSE sessions[k])
                              ELSE <<>>]
           /\ skey' = [skey EXCEPT ![w] = <<"AddMessage", key, msg>>]
    /\ spc' = [spc EXCEPT ![w] = "save"]
    /\ UNCHANGED <<persistent, disk, tmp, orphans, snap, sret, saves, crashes, failed>>

\* AddMessage: the key is normalized; under s.mu the session is created when
\* absent and the message appended; then Save(key) is called
AddMessage(w, sessionKey, msg) ==
    /\ spc[w] = "idle"
    /\ sent' = sent + 1
    /\ LET key == NormalKey(sessionKey)
           old == IF key \in DOMAIN sessions THEN sessions[key] ELSE <<>>
       IN  /\ sessions' = [k \in DOMAIN sessions \cup {key} |->
                              IF k = key THEN Append(old, msg) ELSE sessions[k]]
           /\ skey' = [skey EXCEPT ![w] = <<"AddMessage", key, msg>>]
    /\ spc' = [spc EXCEPT ![w] = "save"]
    /\ UNCHANGED <<persistent, disk, tmp, orphans, snap, sret, saves, crashes, failed>>

\* a direct call of Save(sessionKey)
SaveCall(w, sessionKey) ==
    /\ spc[w] = "idle"
    /\ saves < MaxSaves
    /\ saves' = saves + 1
    /\ skey' = [skey EXCEPT ![w] = <<"Save", sessionKey, 0>>]
    /\ spc' = [spc EXCEPT ![w] = "save"]
    /\ UNCHANGED <<persistent, sessions, disk, tmp, orphans, snap, sret, sent,
                   crashes, failed>>

\* a Save without the test of the file name
SaveSnapshotNoValidation(w) ==
    /\ spc[w] = "save"
    /\ IF ~persistent
       THEN Return(w, CallOf(w), "nil")
       ELSE IF KeyOf(w) \notin DOMAIN sessions
       THEN Return(w, CallOf(w), "nil")
       ELSE /\ snap' = [snap EXCEPT ![w] = sessions[KeyOf(w)]]
            /\ spc' = [spc EXCEPT ![w] = "create"]
            /\ UNCHANGED <<skey, sret, failed>>
    /\ UNCHANGED <<persistent, sessions, disk, tmp, orphans, sent, saves, crashes>>

\* Save up to the payload: the memory-only return, the file name test, and
\* under s.mu.RLock the lookup and the copy of the session
SaveSnapshot(w) ==
    /\ spc[w] = "save"
    /\ IF ~persistent
       THEN Return(w, CallOf(w), "nil")
       ELSE IF InvalidFilename(sanitizeSessionFilename(KeyOf(w)))
       THEN Return(w, CallOf(w), "ErrInvalid")
       ELSE IF KeyOf(w) \notin DOMAIN sessions
       THEN Return(w, CallOf(w), "nil")
       ELSE /\ snap' = [snap EXCEPT ![w] = sessions[KeyOf(w)]]
            /\ spc' = [spc EXCEPT ![w] = "create"]
            /\ UNCHANGED <<skey, sret, failed>>
    /\ UNCHANGED <<persistent, sessions, disk, tmp, orphans, sent, saves, crashes>>

\* a Save that opens the target path itself and writes the payload in place
SaveCreateTarget(w, ok) ==
    /\ spc[w] = "create"
    /\ IF ok
       THEN /\ tmp' = [tmp EXCEPT ![w] = File(KeyOf(w), snap[w], "empty")]
            /\ disk' = [n \in DOMAIN disk \cup {sanitizeSessionFilename(KeyOf(w))} |->
                            IF n = sanitizeSessionFilename(KeyOf(w))
                            THEN File(KeyOf(w), snap[w], "empty") ELSE disk[n]]
            /\ spc' = [spc EXCEPT ![w] = "write"]
            /\ UNCHANGED <<skey, snap, sret, failed>>
       ELSE /\ Return(w, CallOf(w), "err")
            /\ UNCHANGED <<tmp, disk>>
    /\ UNCHANGED <<persistent, sessions, orphans, sent, saves, crashes>>

\* Save: os.CreateTemp(s.storage, "session-*.tmp")
SaveCreateTemp(w, ok) ==
    /\ spc[w] = "create"
    /\ IF ok
       THEN /\ tmp' = [tmp EXCEPT ![w] = File(KeyOf(w), snap[w], "empty")]
            /\ spc' = [spc EXCEPT ![w] = "write"]
            /\ UNCHANGED <<skey, snap, sret, failed>>
       ELSE /\ Return(w, CallOf(w), "err")
            /\ tmp' = tmp
    /\ UNCHANGED <<persistent, sessions, disk, orphans, sent, saves, crashes>>

\* Save's deferred cleanup: _ = os.Remove(tmpPath), whose error is discarded;
\* the removal succeeds (rm) or the temp file stays in the storage root
Cleanup(w, rm) ==
    /\ tmp' = [tmp EXCEPT ![w] = NoFile]
    /\ orphans' = IF rm THEN orphans ELSE orphans \cup {tmp[w]}

\* a Save that takes the message out of the session again when the write fails
SaveWriteRollback(w, ok, rm) ==
    /\ spc[w] = "write"
    /\ IF ok
       THEN /\ tmp' = [tmp EXCEPT ![w].bytes = "full"]
            /\ spc' = [spc EXCEPT ![w] = "chmod"]
            /\ UNCHANGED <<skey, snap, sret, failed, sessions, orphans>>
       ELSE /\ Return(w, CallOf(w), "err")
            /\ Cleanup(w, rm)
            /\ sessions' = [sessions EXCEPT ![KeyOf(w)] =
                                SubSeq(@, 1, Len(@) - 1)]
    /\ UNCHANGED <<persistent, disk, sent, saves, crashes>>

\* Save: tempFile.Write(payload); on an error the file, which may hold a part
\* of the payload, is closed and the deferred cleanup removes it
SaveWrite(w, ok, rm) ==
    /\ spc[w] = "write"
    /\ IF ok
       THEN /\ tmp' = [tmp EXCEPT ![w].bytes = "full"]
            /\ spc' = [spc EXCEPT ![w] = "chmod"]
            /\ UNCHANGED <<skey, snap, sret, failed, orphans>>
       ELSE /\ Return(w, CallOf(w), "err")
            /\ Cleanup(w, rm)
    /\ UNCHANGED <<persistent, sessions, disk, sent, saves, crashes>>

\* Save: tempFile.Chmod, tempFile.Sync, tempFile.Close, in this order; an error
\* of any of them returns it and the deferred cleanup removes the temp file
SaveTempStep(w, ok, rm) ==
    /\ spc[w] \in {"chmod", "sync", "close"}
    /\ IF ok
       THEN /\ spc' = [spc EXCEPT ![w] = CASE spc[w] = "chmod" -> "sync"
                                           [] spc[w] = "sync" -> "close"
                                           [] spc[w] = "close" -> "rename"]
            /\ UNCHANGED <<skey, snap, sret, failed, tmp, orphans>>
       ELSE /\ Return(w, CallOf(w), "err")
            /\ Cleanup(w, rm)
    /\ UNCHANGED <<persistent, sessions, disk, sent, saves, crashes>>

\* Save: os.Rename(tmpPath, targetPath) replaces the target atomically and
\* leaves no temp file (cleanup = false); on an error the deferred cleanup runs
SaveRename(w, ok, rm) ==
    /\ spc[w] = "rename"
    /\ IF ok
       THEN /\ LET name == sanitizeSessionFilename(KeyOf(w))
               IN  disk' = [n \in DOMAIN disk \cup {name} |->
                               IF n = name THEN tmp[w] ELSE disk[n]]
            /\ Return(w, CallOf(w), "nil")
            /\ tmp' = [tmp EXCEPT ![w] = NoFile]
            /\ orphans' = orphans
       ELSE /\ Return(w, CallOf(w), "err")
            /\ disk' = disk
            /\ Cleanup(w, rm)
    /\ UNCHANGED <<persistent, sessions, sent, saves, crashes>>

\* the process dies between two steps and is started again on the same storage
\* root: temp files stay where they are, NewSessionStore loads the target files
Crash ==
    /\ persistent
    /\ crashes < MaxCrashes
    /\ crashes' = crashes + 1
    /\ orphans' = orphans \cup ({tmp[w] : w \in Workers} \ {NoFile})
    /\ tmp' = [w \in Workers |-> NoFile]
    /\ sessions' = loadSessions(disk)
    /\ spc' = [w \in Workers |-> "idle"]
    /\ skey' = [w \in Workers |-> <<>>]
    /\ snap' = [w \in Workers |-> <<>>]
    /\ sret' = <<>>
    /\ failed' = FALSE
    /\ UNCHANGED <<persistent, disk, sent, saves>>

\* ------------------------------------------------- SessionStore read methods
NoSlice == [key |-> <<>>, val |-> <<>>, backing |-> "nil", written |-> FALSE]

\* no read method was called yet
NoReads ==
    /\ hist = NoSlice
    /\ seen = <<>>
    /\ cnt = <<>>
    /\ reads = 0

\* a History that returns session.Messages itself
HistoryAlias(w, sessionKey) ==
    /\ spc[w] = "idle"
    /\ reads < MaxReads
    /\ reads' = reads + 1
    /\ LET key == NormalKey(sessionKey)
       IN  IF key \notin DOMAIN sessions
           THEN hist' = [key |-> key, val |-> <<>>, backing |-> "nil", written |-> FALSE]
           ELSE hist' = [key |-> key, val |-> sessions[key], backing |-> "session",
                         written |-> FALSE]
    /\ seen' = hist'.val
    /\ cnt' = <<>>
    /\ UNCHANGED storeVars

\* History: under s.mu.RLock, nil for an unknown key, else a new slice of the
\* session's length with the messages copied into it
History(w, sessionKey) ==
    /\ spc[w] = "idle"
    /\ reads < MaxReads
    /\ reads' = reads + 1
    /\ LET key == NormalKey(sessionKey)
       IN  IF key \notin DOMAIN sessions
           THEN hist' = [key |-> key, val |-> <<>>, backing |-> "nil", written |-> FALSE]
           ELSE hist' = [key |-> key, val |-> sessions[key], backing |-> "copy",
                         written |-> FALSE]
    /\ seen' = hist'.val
    /\ cnt' = <<>>
    /\ UNCHANGED storeVars

\* the caller of History overwrites the first element of the slice it got; the
\* write lands in the slice's backing array
CallerWrites ==
    /\ hist.val # <<>>
    /\ ~hist.written
    /\ hist' = [hist EXCEPT !.val[1] = 0, !.written = TRUE]
    /\ IF hist.backing = "session"
       THEN sessions' = [sessions EXCEPT ![hist.key][1] = 0]
       ELSE sessions' = sessions
    /\ UNCHANGED <<seen, cnt, reads>>
    /\ UNCHANGED <<persistent, disk, tmp, orphans, spc, skey, snap, sret, sent, saves,
                   crashes, failed>>

\* SessionCount: len(s.sessions) under s.mu.RLock
SessionCount(w) ==
    /\ spc[w] = "idle"
    /\ reads < MaxReads
    /\ reads' = reads + 1
    /\ cnt' = <<"SessionCount", Cardinality(DOMAIN sessions)>>
    /\ UNCHANGED <<hist, seen>>
    /\ UNCHANGED storeVars

RECURSIVE SumLen(_, _)
SumLen(m, keys) ==
    IF keys = {} THEN 0
    ELSE LET k == CHOOSE x \in keys : TRUE
         IN  Len(m[k]) + SumLen(m, keys \ {k})

\* TotalMessageCount: the loop over s.sessions under s.mu.RLock
TotalMessageCount(w) ==
    /\ spc[w] = "idle"
    /\ reads < MaxReads
    /\ reads' = reads + 1
    /\ cnt' = <<"TotalMessageCount", SumLen(sessions, DOMAIN sessions)>>
    /\ UNCHANGED <<hist, seen>>
    /\ UNCHANGED storeVars

\* ------------------------------------------------------------------- Agent
\* NewAgent(systemPrompt, browser, webFetch, sessions): which of the three
\* collaborators are not nil
NewAgent(browser, fetcher, store) ==
    /\ agentStore = store
    /\ browserTool = browser
    /\ webFetch = fetcher
    /\ memory = <<>>
    /\ apc = [w \in Workers |-> "idle"]
    /\ amsg = [w \in Workers |-> <<>>]
    /\ processed = 0
    /\ done = {}
    /\ aret = <<>>
    /\ acall = <<>>

\* the fields NewAgent sets once
agentTools == <<agentStore, browserTool, webFetch>>

\* the Channel, ChatID and UserID of the messages Process is called with
Senders == { [channel |-> <<"t">>, chat |-> <<"1">>, user |-> <<"u">>],
             [channel |-> <<>>,    chat |-> <<"1">>, user |-> <<" ", "u">>],
             [channel |-> <<" ">>, chat |-> <<"1">>, user |-> <<>>],
             [channel |-> <<>>,    chat |-> <<>>,    user |-> <<>>] }

\* the Text of the messages Process is called with
Texts == { <<" ">>, <<"h", "i">> }

UserPrefix == <<"u", "s", "e", "r", ":">>

\* messageSessionKey
messageSessionKey(msg) ==
    IF TrimSpace(msg.channel) # <<>> /\ TrimSpace(msg.chat) # <<>>
    THEN msg.channel \o <<":">> \o msg.chat
    ELSE IF TrimSpace(msg.user) # <<>>
    THEN UserPrefix \o TrimSpace(msg.user)
    ELSE Global

\* remember's buffer: the message appended, the oldest dropped beyond maxMemory
Remembered(buffer, id) ==
    LET all == Append(buffer, id)
    IN  IF Len(all) > maxMemory
        THEN SubSeq(all, Len(all) - maxMemory + 1, Len(all))
        ELSE all

\* strings.ToLower on the upper-case letters the command texts use
Upper == [c \in {"B", "E", "F"} |-> CASE c = "B" -> "b" [] c = "E" -> "e" [] c = "F" -> "f"]
ToLower(s) == [i \in 1..Len(s) |-> IF s[i] \in DOMAIN Upper THEN Upper[s[i]] ELSE s[i]]

\* strings.HasPrefix
HasPrefix(s, p) == Len(s) >= Len(p) /\ SubSeq(s, 1, Len(p)) = p

StatusCmd == <<"/", "s", "t", "a", "t", "u", "s">>
FetchCmd == <<"/", "f", "e", "t", "c", "h", " ">>
BrowseCmd == <<"/", "b", "r", "o", "w", "s", "e", " ">>

\* strings.TrimSpace(msg.Text[len(cmd):])
Target(text, cmd) == TrimSpace(SubSeq(text, Len(cmd) + 1, Len(text)))

\* the replies of Process: the empty string, the formatted lines, the usage
\* hints, and the (truncated) text a tool returned for a target
EmptyReply == [kind |-> "empty"]
ReadyReply(channel, size) == [kind |-> "ready", channel |-> channel, memory |-> size]
StatusReply(stats) ==
    [kind |-> "status", memory |-> stats[1], sessions |-> stats[2], stored |-> stats[3]]
FetchUsage == [kind |-> "Provide a URL after /fetch."]
BrowseUsage == [kind |-> "Provide a URL after /browse."]
Unavailable == [kind |-> "Browser tool unavailable."]
\* the marker truncate appends
Ellipsis == <<".", ".", ".">>

\* a truncate that cuts every text of max units or more
truncateAtMax(text, max) ==
    IF Len(text) < max THEN text ELSE SubSeq(text, 1, max) \o Ellipsis

\* truncate(text, max): text when len(text) <= max, else text[:max] + "..."
truncate(text, max) ==
    IF Len(text) <= max THEN text ELSE SubSeq(text, 1, max) \o Ellipsis

\* the reply truncate(text, 1200) for the text a tool returned for a target
\* (page: that text, kept for the properties)
PageReply(tool, target, page) ==
    [kind |-> "page", tool |-> tool, target |-> target, page |-> page,
     text |-> truncate(page, maxReply)]

\* Process returns (reply, err) for message m
Reply(w, m, reply, err) ==
    /\ aret' = <<w, reply, err>>
    /\ apc' = [apc EXCEPT ![w] = "idle"]
    /\ amsg' = [amsg EXCEPT ![w] = <<>>]
    /\ done' = IF agentStore
               THEN done \cup {[id |-> m.id, channel |-> m.channel, chat |-> m.chat,
                                user |-> m.user]}
               ELSE done

\* Process goes on with message m at the statement named
Goto(w, at, m) ==
    /\ apc' = [apc EXCEPT ![w] = at]
    /\ amsg' = [amsg EXCEPT ![w] = m]
    /\ UNCHANGED <<aret, done>>

\* Process after remember returned: the tests of the lower-cased text, the
\* usage hints, and the reply to a text that is no command
Route(w, m) ==
    LET lower == ToLower(m.text)
    IN  IF HasPrefix(lower, StatusCmd)
        THEN Goto(w, "stats", m)
        ELSE IF HasPrefix(lower, FetchCmd) /\ webFetch
        THEN IF Target(m.text, FetchCmd) = <<>>
             THEN Reply(w, m, FetchUsage, "nil")
             ELSE Goto(w, "fetch", m)
        ELSE IF HasPrefix(lower, BrowseCmd)
        THEN IF Target(m.text, BrowseCmd) = <<>>
             THEN Reply(w, m, BrowseUsage, "nil")
             ELSE IF webFetch THEN Goto(w, "fetch", m) ELSE Goto(w, "browse", m)
        ELSE Reply(w, m, ReadyReply(m.channel, m.size), "nil")

\* the message Process works on: the trimmed text, the buffer length remember
\* returned, the outcome of its lightweight fetch, the counts Stats has read
Message(id, text, from, size) ==
    [id |-> id, channel |-> from.channel, chat |-> from.chat, user |-> from.user,
     text |-> TrimSpace(text), size |-> size, fetch |-> "none", stats |-> <<>>]

\* a remember that drops the newest message beyond maxMemory
ProcessCallKeepOldest(w, text, from) ==
    /\ apc[w] = "idle"
    /\ spc[w] = "idle"
    /\ IF TrimSpace(text) = <<>>
       THEN /\ aret' = <<w, EmptyReply, "nil">>
            /\ UNCHANGED <<memory, apc, amsg, processed, done>>
       ELSE /\ processed < (IF agentStore THEN MaxProcess ELSE MaxBuffered)
            /\ processed' = processed + 1
            /\ memory' = SubSeq(Append(memory, processed + 1), 1,
                           IF Len(memory) < maxMemory THEN Len(memory) + 1 ELSE maxMemory)
            /\ LET m == Message(processed + 1, text, from, Len(memory'))
               IN  IF agentStore THEN Goto(w, "add_key", m) ELSE Route(w, m)
    /\ acall' = <<w, TrimSpace(text) = <<>>>>
    /\ UNCHANGED agentTools

\* a Process that remembers a message whose text is blank after trimming
ProcessCallRememberBlank(w, text, from) ==
    /\ apc[w] = "idle"
    /\ spc[w] = "idle"
    /\ processed < (IF agentStore THEN MaxProcess ELSE MaxBuffered)
    /\ processed' = processed + 1
    /\ memory' = Remembered(memory, processed + 1)
    /\ LET m == Message(processed + 1, text, from, Len(memory'))
       IN  IF agentStore THEN Goto(w, "add_key", m) ELSE Route(w, m)
    /\ acall' = <<w, TrimSpace(text) = <<>>>>
    /\ UNCHANGED agentTools

\* Process up to the first AddMessage call: a blank text returns at once; else
\* remember appends the message under a.mu; without a store Process goes on
\* with the text
ProcessCall(w, text, from) ==
    /\ apc[w] = "idle"
    /\ spc[w] = "idle"
    /\ IF TrimSpace(text) = <<>>
       THEN /\ aret' = <<w, EmptyReply, "nil">>
            /\ UNCHANGED <<memory, apc, amsg, processed, done>>
       ELSE /\ processed < (IF agentStore THEN MaxProcess ELSE MaxBuffered)
            /\ processed' = processed + 1
            /\ memory' = Remembered(memory, processed + 1)
            /\ LET m == Message(processed + 1, text, from, Len(memory'))
               IN  IF agentStore THEN Goto(w, "add_key", m) ELSE Route(w, m)
    /\ acall' = <<w, TrimSpace(text) = <<>>>>
    /\ UNCHANGED agentTools

\* remember: a.sessions.AddMessage(sessionKey, msg), its error dropped
RememberAdd(w) ==
    /\ apc[w] = "add_key"
    /\ AddMessage(w, messageSessionKey(amsg[w]), amsg[w].id)
    /\ apc' = [apc EXCEPT ![w] = "wait_key"]
    /\ UNCHANGED <<agentTools, acall, memory, amsg, processed, done, aret>>

\* a remember without the second AddMessage call
RememberGlobalNever(w) ==
    /\ apc[w] = "wait_key"
    /\ spc[w] = "idle"
    /\ Route(w, amsg[w])
    /\ UNCHANGED storeVars
    /\ UNCHANGED <<agentTools, acall, memory, processed>>

\* remember after the first AddMessage returned: a.sessions.AddMessage("global",
\* msg) when sessionKey != "global", else remember returns
RememberGlobal(w) ==
    /\ apc[w] = "wait_key"
    /\ spc[w] = "idle"
    /\ IF messageSessionKey(amsg[w]) # Global
       THEN /\ AddMessage(w, Global, amsg[w].id)
            /\ apc' = [apc EXCEPT ![w] = "wait_global"]
            /\ UNCHANGED <<amsg, done, aret>>
       ELSE /\ Route(w, amsg[w])
            /\ UNCHANGED storeVars
    /\ UNCHANGED <<agentTools, acall, memory, processed>>

\* a Process that returns the error of the second AddMessage call
ProcessReturnPersistError(w) ==
    /\ apc[w] = "wait_global"
    /\ spc[w] = "idle"
    /\ IF sret # <<>> /\ sret[1] = w /\ sret[3] # "nil"
       THEN Reply(w, amsg[w], EmptyReply, sret[3])
       ELSE Route(w, amsg[w])
    /\ UNCHANGED storeVars
    /\ UNCHANGED <<agentTools, acall, memory, processed>>

\* remember returns after the second AddMessage returned, its error dropped
ProcessReturn(w) ==
    /\ apc[w] = "wait_global"
    /\ spc[w] = "idle"
    /\ Route(w, amsg[w])
    /\ UNCHANGED storeVars
    /\ UNCHANGED <<agentTools, acall, memory, processed>>

\* ---------------------------------------------------------------- Stats
\* Stats: len(a.memory) under a.mu; without a store the counts stay zero
StatsMemory(w) ==
    /\ apc[w] = "stats"
    /\ IF agentStore
       THEN Goto(w, "stats_sessions", [amsg[w] EXCEPT !.stats = <<Len(memory)>>])
       ELSE Reply(w, amsg[w], StatusReply(<<Len(memory), 0, 0>>), "nil")
    /\ UNCHANGED <<agentTools, acall, memory, processed>>

\* Stats: a.sessions.SessionCount()
StatsSessions(w) ==
    /\ apc[w] = "stats_sessions"
    /\ Goto(w, "stats_messages",
            [amsg[w] EXCEPT !.stats = Append(@, Cardinality(DOMAIN sessions))])
    /\ UNCHANGED <<agentTools, acall, memory, processed>>

\* Stats: a.sessions.TotalMessageCount(), then Process returns the status line
StatsMessages(w) ==
    /\ apc[w] = "stats_messages"
    /\ Reply(w, amsg[w],
             StatusReply(Append(amsg[w].stats, SumLen(sessions, DOMAIN sessions))), "nil")
    /\ UNCHANGED <<agentTools, acall, memory, processed>>

\* ------------------------------------------------------------- WebFetcher
\* a normalizeWebURL that does not prepend https://
normalizeWebURLNoPrefix(rawURL) ==
    LET value == TrimSpace(rawURL)
        sch   == ParseScheme(value)
    IN  IF value = <<>> THEN [ok |-> FALSE, url |-> <<>>]
        ELSE IF ~ParseOK(value) THEN [ok |-> FALSE, url |-> <<>>]
        ELSE IF sch # <<"h", "t", "t", "p">> /\ sch # <<"h", "t", "t", "p", "s">>
             THEN [ok |-> FALSE, url |-> <<>>]
        ELSE IF ParseHost(value) = <<>> THEN [ok |-> FALSE, url |-> <<>>]
        ELSE [ok |-> TRUE, url |-> value]

\* normalizeWebURL: [ok |-> accepted, url |-> the normalized target]
normalizeWebURL(rawURL) ==
    LET value == TrimSpace(rawURL)
        full  == IF Contains(value, SchemeSep) THEN value ELSE HttpsPrefix \o value
        sch   == ParseScheme(full)
    IN  IF value = <<>> THEN [ok |-> FALSE, url |-> <<>>]
        ELSE IF ~ParseOK(full) THEN [ok |-> FALSE, url |-> <<>>]
        ELSE IF sch # <<"h", "t", "t", "p">> /\ sch # <<"h", "t", "t", "p", "s">>
             THEN [ok |-> FALSE, url |-> <<>>]
        ELSE IF ParseHost(full) = <<>> THEN [ok |-> FALSE, url |-> <<>>]
        ELSE [ok |-> TRUE, url |-> full]

\* normalizeWebURL on each of the targets
WebNormalized == [u \in RawURLs |-> normalizeWebURL(u)]

\* Fetch: the error of normalizeWebURL; else the request, the status, the body
\* and the stripped text succeed (ok) and the text is not blank, or one of them
\* fails, an empty body text included
Fetch(rawURL, ok) ==
    IF ~WebNormalized[rawURL].ok THEN "err_url"
    ELSE IF ok THEN "text" ELSE "err_fetch"

\* a browse command that goes to the browser although the fetch returned text
ProcessFetchThenBrowse(w, ok, page) ==
    /\ apc[w] = "fetch"
    /\ LET m      == amsg[w]
           isFetch == HasPrefix(ToLower(m.text), FetchCmd)
           target == Target(m.text, IF isFetch THEN FetchCmd ELSE BrowseCmd)
           got    == Fetch(target, ok)
       IN  IF isFetch
           THEN IF got = "text"
                THEN Reply(w, [m EXCEPT !.fetch = got], PageReply("fetch", target, page), "nil")
                ELSE Reply(w, [m EXCEPT !.fetch = got], EmptyReply, got)
           ELSE Goto(w, "browse", [m EXCEPT !.fetch = got])
    /\ UNCHANGED <<agentTools, acall, memory, processed>>

\* Process: a.webFetch.Fetch(ctx, target), page being the text of a Fetch
\* without error. A fetch command returns its text or
\* its error; a browse command returns the text when there is no error and the
\* text is not blank, and goes on to the browser otherwise
ProcessFetch(w, ok, page) ==
    /\ apc[w] = "fetch"
    /\ LET m      == amsg[w]
           isFetch == HasPrefix(ToLower(m.text), FetchCmd)
           target == Target(m.text, IF isFetch THEN FetchCmd ELSE BrowseCmd)
           got    == Fetch(target, ok)
       IN  IF got = "text"
           THEN Reply(w, [m EXCEPT !.fetch = got], PageReply("fetch", target, page), "nil")
           ELSE IF isFetch
           THEN Reply(w, [m EXCEPT !.fetch = got], EmptyReply, got)
           ELSE Goto(w, "browse", [m EXCEPT !.fetch = got])
    /\ UNCHANGED <<agentTools, acall, memory, processed>>

\* the error Process returns when Browse returned err
BrowseFailed(err) ==
    CASE err = "err_url" -> "browse failed: err_url"
      [] err = "err_start" -> "browse failed: err_start"
      [] err = "err_nav" -> "browse failed: err_nav"

\* Process after a.browser.Browse returned to worker w in this step: the
\* wrapped error, or the (truncated) text page that Browse returned
BrowseReturns(w, page) ==
    IF apc[w] = "browsing" /\ pc'[w] = "idle"
    THEN /\ IF ret'[2] = "ok"
            THEN Reply(w, amsg[w],
                       PageReply("browser", Target(amsg[w].text, BrowseCmd), page), "nil")
            ELSE Reply(w, amsg[w], EmptyReply, BrowseFailed(ret'[2]))
         /\ UNCHANGED <<agentTools, acall, memory, processed>>
    ELSE UNCHANGED agentVars

\* Process: without a browser the reply says so; else a.browser.Browse(ctx,
\* target) is called, which returns at once for a target normalizeURL rejects
ProcessBrowse(w) ==
    /\ apc[w] = "browse"
    /\ IF ~browserTool
       THEN /\ Reply(w, amsg[w], Unavailable, "nil")
            /\ UNCHANGED browserVars
       ELSE /\ BrowseCall(w, Target(amsg[w].text, BrowseCmd))
            /\ IF pc'[w] = "idle"
               THEN Reply(w, amsg[w], EmptyReply, BrowseFailed(ret'[2]))
               ELSE Goto(w, "browsing", amsg[w])
    /\ UNCHANGED <<agentTools, acall, memory, processed>>

\* ========================================================== statusTracker
\* the names buildRunners gives its runners
GatewayNames == {"telegram", "whatsapp"}

\* &gatewayRuntime{Configured: true}, and the record newStatusTracker makes
\* (LastChange is written and never read by the tracker; it is left out)
NewRuntime == [configured |-> TRUE, running |-> FALSE, lastError |-> ""]

\* newStatusTracker(app, version, runners, agent, browser): one record for each
\* runner
newStatusTracker(runners) ==
    /\ gateways = [n \in runners |-> NewRuntime]
    /\ tpc = "idle"
    /\ tcopy = <<>>
    /\ tret = <<>>

\* main before its goroutines exist, or a program that does not run main
NoMain ==
    /\ mpc = "init"
    /\ sig = FALSE
    /\ rpc = [n \in GatewayNames |-> "none"]
    /\ hpc = "none"

\* a program without gateways, health server and main
NoTracker == newStatusTracker({}) /\ NoMain

\* the record of name, created when the map has none
StateOf(name) == IF name \in DOMAIN gateways THEN gateways[name] ELSE NewRuntime

\* setRunning under s.mu.Lock
setRunning(name, running) ==
    /\ gateways' = [n \in DOMAIN gateways \cup {name} |->
                       IF n = name
                       THEN [StateOf(name) EXCEPT
                                !.running = running,
                                !.lastError = IF running THEN "" ELSE @]
                       ELSE gateways[n]]
    /\ UNCHANGED <<tpc, tcopy, tret>>

\* setError: a nil error returns at once; else under s.mu.Lock
setError(name, err) ==
    /\ IF err = "nil"
       THEN gateways' = gateways
       ELSE gateways' = [n \in DOMAIN gateways \cup {name} |->
                            IF n = name
                            THEN [StateOf(name) EXCEPT !.lastError = err]
                            ELSE gateways[n]]
    /\ UNCHANGED <<tpc, tcopy, tret>>

\* ready's loop and result on the records g
readyOf(g) ==
    LET configured == Cardinality({n \in DOMAIN g : g[n].configured})
        running    == Cardinality({n \in DOMAIN g : g[n].running})
    IN  IF configured = 0 THEN TRUE ELSE running > 0

\* a ready that wants every configured gateway running
readyWhenAllRun ==
    /\ tpc = "idle"
    /\ tret' = <<"ready", \A n \in DOMAIN gateways : gateways[n].running>>
    /\ UNCHANGED <<gateways, tpc, tcopy>>

\* ready, called by the health server's handler, under s.mu.RLock
ready ==
    /\ tpc = "idle"
    /\ tret' = <<"ready", readyOf(gateways)>>
    /\ UNCHANGED <<gateways, tpc, tcopy>>

\* snapshot: the copy of the records under s.mu.RLock, up to RUnlock
snapshotCopy ==
    /\ tpc = "idle"
    /\ tcopy' = gateways
    /\ tpc' = "payload"
    /\ UNCHANGED <<gateways, tret>>

\* snapshot: the payload, whose "ready" is s.ready() under a new RLock
snapshotPayload ==
    /\ tpc = "payload"
    /\ tret' = <<"snapshot", [ready |-> readyOf(gateways), gateways |-> tcopy]>>
    /\ tpc' = "idle"
    /\ tcopy' = <<>>
    /\ UNCHANGED gateways

\* ------------------------------------------------------------------- main
\* the goroutine of main is the first caller of the Browser
Main == 1
\* the goroutine of a gateway handler that calls the Browser
Handler == 2

\* main from newStatusTracker to <-ctx.Done(): the health server goroutine,
\* when enabled, and one goroutine for each runner have been started
mainStarted(runners, health) ==
    /\ newStatusTracker(runners)
    /\ mpc = "wait_signal"
    /\ sig = FALSE
    /\ rpc = [n \in GatewayNames |-> IF n \in runners THEN "spawned" ELSE "none"]
    /\ hpc = IF health THEN "serving" ELSE "none"

\* the process gets SIGINT or SIGTERM: ctx is done
Signal ==
    /\ ~sig
    /\ sig' = TRUE
    /\ UNCHANGED <<mpc, rpc, hpc>>
    /\ UNCHANGED <<gateways, tpc, tcopy, tret>>

\* a gateway goroutine: tracker.setRunning(name, true)
RunnerBegins(n) ==
    /\ rpc[n] = "spawned"
    /\ setRunning(n, TRUE)
    /\ rpc' = [rpc EXCEPT ![n] = "started"]
    /\ UNCHANGED <<mpc, sig, hpc>>

\* a gateway goroutine: start(ctx) returned, with an error at any time, with
\* nil or context.Canceled once ctx is done; then tracker.setRunning(name, false)
RunnerStops(n, err) ==
    /\ rpc[n] = "started"
    /\ err = "nil" => sig
    /\ setRunning(n, FALSE)
    /\ rpc' = [rpc EXCEPT ![n] = IF err = "nil" THEN "returned" ELSE "failed"]
    /\ UNCHANGED <<mpc, sig, hpc>>

\* a gateway goroutine after an error: tracker.setError(name, err), the log
\* record, return; the deferred wg.Done()
RunnerFails(n) ==
    /\ rpc[n] = "failed"
    /\ setError(n, "e")
    /\ rpc' = [rpc EXCEPT ![n] = "returned"]
    /\ UNCHANGED <<mpc, sig, hpc>>

\* the health server goroutine: Start returned, after a listen error or after
\* ctx was done; the deferred wg.Done()
HealthStops ==
    /\ hpc = "serving"
    /\ hpc' = "returned"
    /\ UNCHANGED <<mpc, sig, rpc>>
    /\ UNCHANGED <<gateways, tpc, tcopy, tret>>

\* a main that does not wait for its goroutines
mainWaitSkipped ==
    /\ mpc = "wg_wait"
    /\ mpc' = "close"
    /\ UNCHANGED <<sig, rpc, hpc>>
    /\ UNCHANGED <<gateways, tpc, tcopy, tret>>

\* main: <-ctx.Done()
mainSignalled ==
    /\ mpc = "wait_signal"
    /\ sig
    /\ mpc' = "wg_wait"
    /\ UNCHANGED <<sig, rpc, hpc>>
    /\ UNCHANGED <<gateways, tpc, tcopy, tret>>

\* main: wg.Wait() returns when every goroutine added to wg has called Done
mainWait ==
    /\ mpc = "wg_wait"
    /\ \A n \in GatewayNames : rpc[n] \in {"none", "returned"}
    /\ hpc \in {"none", "returned"}
    /\ mpc' = "close"
    /\ UNCHANGED <<sig, rpc, hpc>>
    /\ UNCHANGED <<gateways, tpc, tcopy, tret>>

\* main returns: the deferred browser.Close() is called
mainClose ==
    /\ mpc = "close"
    /\ CloseCall(Main)
    /\ mpc' = "closing"
    /\ UNCHANGED <<sig, rpc, hpc>>
    /\ UNCHANGED <<gateways, tpc, tcopy, tret>>

\* main: Close returned in this step; the deferred cancel(), the process exits
mainExits ==
    IF mpc = "closing" /\ pc'[Main] = "idle"
    THEN /\ mpc' = "exited"
         /\ UNCHANGED <<sig, rpc, hpc>>
         /\ UNCHANGED <<gateways, tpc, tcopy, tret>>
    ELSE UNCHANGED mainVars

\* ---------------------------------------------------------------- SpecAgent
notAgentStore == <<browserVars, readVars, mainVars>>

\* an Agent with a store without a storage root, and the workers that call
\* Process
NextAgent ==
    \/ \E w \in Workers, text \in Texts, from \in Senders :
          ProcessCall(w, text, from) /\ UNCHANGED storeVars /\ UNCHANGED notAgentStore
    \/ \E w \in Workers : RememberAdd(w) /\ UNCHANGED notAgentStore
    \/ \E w \in Workers : RememberGlobal(w) /\ UNCHANGED notAgentStore
    \/ \E w \in Workers : ProcessReturn(w) /\ UNCHANGED notAgentStore
    \/ \E w \in Workers : SaveSnapshot(w) /\ UNCHANGED notStore

InitSpecAgent ==
    NewSessionStore(FALSE) /\ InitBrowser /\ NoReads /\ NewAgent(TRUE, TRUE, TRUE) /\ NoTracker

SpecAgent == InitSpecAgent /\ [][NextAgent]_vars

\* --------------------------------------------------------------- SpecRouter
\* the Text of the messages Process is called with: blank, no command, the
\* fetch and browse commands without and with a target
RouterTexts ==
    { <<" ">>, <<"h", "i">>,
      <<"/", "f", "e", "t", "c", "h">>,
      <<"/", "f", "e", "t", "c", "h", " ", " ">>,
      FetchCmd \o <<"e", ".", "x">>,
      <<"/", "F", "E", "t", "c", "h", " ">> \o HttpsPrefix,
      <<"/", "b", "r", "o", "w", "s", "e">>,
      BrowseCmd \o <<"e", ".", "x">>,
      <<"/", "B", "r", "o", "w", "s", "e", " ">> \o HttpsPrefix }

\* their sender: a channel without chat and user, whose session is global, so
\* that remember stops after its first AddMessage call
RouterSenders == { [channel |-> <<"t">>, chat |-> <<>>, user |-> <<>>] }

\* the text the tools return for every target
RouterPage == <<"p">>

\* the goroutines that call Process: one handler for each of the two gateways
\* buildRunners can build (telegram, whatsapp)
Handlers == {w \in Workers : w <= 2}

\* an Agent with a store without a storage root, with or without a fetch tool
\* and a browser, and the gateway handlers that call Process; nobody else
\* calls the Browser
NextRouter ==
    \/ \E w \in Handlers, text \in RouterTexts, from \in RouterSenders :
          ProcessCall(w, text, from) /\ UNCHANGED storeVars /\ UNCHANGED notAgentStore
    \/ \E w \in Handlers : RememberAdd(w) /\ UNCHANGED notAgentStore
    \/ \E w \in Handlers : RememberGlobal(w) /\ UNCHANGED notAgentStore
    \/ \E w \in Handlers : SaveSnapshot(w) /\ UNCHANGED notStore
    \/ \E w \in Handlers, ok \in BOOLEAN :
          ProcessFetch(w, ok, RouterPage) /\ UNCHANGED storeVars /\ UNCHANGED notAgentStore
    \/ \E w \in Handlers : ProcessBrowse(w) /\ UNCHANGED <<storeVars, readVars, mainVars>>
    \/ \E w \in Handlers : AcquireLock(w) /\ UNCHANGED notBrowser
    \/ \E w \in Handlers, ok \in BOOLEAN :
          AcquireRun(w, ok) /\ BrowseReturns(w, RouterPage) /\ UNCHANGED <<storeVars, readVars, mainVars>>
    \/ \E w \in Handlers, ok \in BOOLEAN : Navigate(w, ok) /\ UNCHANGED notBrowser
    \/ \E w \in Handlers : Touch(w) /\ BrowseReturns(w, RouterPage) /\ UNCHANGED <<storeVars, readVars, mainVars>>

InitSpecRouter ==
    /\ NewSessionStore(FALSE)
    /\ InitBrowser
    /\ NoReads
    /\ \E browser, fetcher \in BOOLEAN : NewAgent(browser, fetcher, TRUE)
    /\ NoTracker

SpecRouter == InitSpecRouter /\ [][NextRouter]_vars

\* ---------------------------------------------------------------- SpecReply
\* the Text of the messages Process is called with: a fetch and a browse
\* command with a target both tools accept
ReplyTexts == { FetchCmd \o <<"e", ".", "x">>, BrowseCmd \o <<"e", ".", "x">> }

\* a text of n units
Page(n) == [i \in 1..n |-> IF i % 3 = 0 THEN "." ELSE IF i % 3 = 1 THEN "a" ELSE "b"]

\* the lengths of the texts the tools return: short ones, the lengths around
\* the max of truncate, and a long one (the tools cut their text at 4000)
PageLens == {1, 2, maxReply - 1, maxReply, maxReply + 1, maxReply + 3, maxReply + 4, MaxPage}

\* the texts the tools return; Fetch returns no blank text
ReplyPages == {Page(n) : n \in PageLens}

\* an Agent with a store without a storage root, with or without a fetch tool
\* and a browser, and one gateway handler that calls Process
NextReply ==
    \/ \E text \in ReplyTexts, from \in RouterSenders :
          ProcessCall(Handler, text, from) /\ UNCHANGED storeVars /\ UNCHANGED notAgentStore
    \/ RememberAdd(Handler) /\ UNCHANGED notAgentStore
    \/ RememberGlobal(Handler) /\ UNCHANGED notAgentStore
    \/ SaveSnapshot(Handler) /\ UNCHANGED notStore
    \/ \E ok \in BOOLEAN, page \in ReplyPages :
          ProcessFetch(Handler, ok, page) /\ UNCHANGED storeVars /\ UNCHANGED notAgentStore
    \/ ProcessBrowse(Handler) /\ UNCHANGED <<storeVars, readVars, mainVars>>
    \/ AcquireLock(Handler) /\ UNCHANGED notBrowser
    \/ \E ok \in BOOLEAN, page \in ReplyPages :
          AcquireRun(Handler, ok) /\ BrowseReturns(Handler, page)
             /\ UNCHANGED <<storeVars, readVars, mainVars>>
    \/ \E ok \in BOOLEAN : Navigate(Handler, ok) /\ UNCHANGED notBrowser
    \/ \E page \in ReplyPages :
          Touch(Handler) /\ BrowseReturns(Handler, page)
             /\ UNCHANGED <<storeVars, readVars, mainVars>>

InitSpecReply ==
    /\ NewSessionStore(FALSE)
    /\ InitBrowser
    /\ NoReads
    /\ \E browser, fetcher \in BOOLEAN : NewAgent(browser, fetcher, TRUE)
    /\ NoTracker

SpecReply == InitSpecReply /\ [][NextReply]_vars

\* -------------------------------------------------------------- SpecPersist
\* the Text of the messages Process is called with: no command, the status
\* command
PersistTexts == { <<"h", "i">>, StatusCmd }

\* their sender: a channel and a chat, so that remember calls AddMessage twice
PersistSenders == { [channel |-> <<"t">>, chat |-> <<"1">>, user |-> <<>>] }

\* an Agent with a store on a storage root whose file operations can fail
\* (the removal of a temp file excepted), and the gateway handlers that call
\* Process
NextPersist ==
    \/ \E w \in Handlers, text \in PersistTexts, from \in PersistSenders :
          ProcessCall(w, text, from) /\ UNCHANGED storeVars /\ UNCHANGED notAgentStore
    \/ \E w \in Handlers : RememberAdd(w) /\ UNCHANGED notAgentStore
    \/ \E w \in Handlers : RememberGlobal(w) /\ UNCHANGED notAgentStore
    \/ \E w \in Handlers : ProcessReturn(w) /\ UNCHANGED notAgentStore
    \/ \E w \in Handlers : StatsMemory(w) /\ UNCHANGED storeVars /\ UNCHANGED notAgentStore
    \/ \E w \in Handlers : StatsSessions(w) /\ UNCHANGED storeVars /\ UNCHANGED notAgentStore
    \/ \E w \in Handlers : StatsMessages(w) /\ UNCHANGED storeVars /\ UNCHANGED notAgentStore
    \/ \E w \in Handlers : SaveSnapshot(w) /\ UNCHANGED notStore
    \/ \E w \in Handlers, ok \in BOOLEAN : SaveCreateTemp(w, ok) /\ UNCHANGED notStore
    \/ \E w \in Handlers, ok \in BOOLEAN : SaveWrite(w, ok, TRUE) /\ UNCHANGED notStore
    \/ \E w \in Handlers, ok \in BOOLEAN : SaveTempStep(w, ok, TRUE) /\ UNCHANGED notStore
    \/ \E w \in Handlers, ok \in BOOLEAN : SaveRename(w, ok, TRUE) /\ UNCHANGED notStore

InitSpecPersist ==
    NewSessionStore(TRUE) /\ InitBrowser /\ NoReads /\ NewAgent(TRUE, TRUE, TRUE) /\ NoTracker

SpecPersist == InitSpecPersist /\ [][NextPersist]_vars

\* -------------------------------------------------------------- SpecTracker
notMain == <<browserVars, storeVars, readVars, agentVars>>

\* the err arguments of setError
Errs == {"nil", "e"}

\* a statusTracker built for any of the runner lists, any sequence of
\* setRunning and setError calls, and a health handler that calls ready and
\* snapshot
NextTracker ==
    \/ \E n \in GatewayNames, running \in BOOLEAN :
          setRunning(n, running) /\ UNCHANGED <<mpc, sig, rpc, hpc>> /\ UNCHANGED notMain
    \/ \E n \in GatewayNames, err \in Errs :
          setError(n, err) /\ UNCHANGED <<mpc, sig, rpc, hpc>> /\ UNCHANGED notMain
    \/ ready /\ UNCHANGED <<mpc, sig, rpc, hpc>> /\ UNCHANGED notMain
    \/ snapshotCopy /\ UNCHANGED <<mpc, sig, rpc, hpc>> /\ UNCHANGED notMain
    \/ snapshotPayload /\ UNCHANGED <<mpc, sig, rpc, hpc>> /\ UNCHANGED notMain

InitSpecTracker ==
    /\ InitBrowser /\ NewSessionStore(TRUE) /\ NoReads /\ NewAgent(TRUE, TRUE, TRUE)
    /\ \E runners \in SUBSET GatewayNames : newStatusTracker(runners)
    /\ NoMain

SpecTracker == InitSpecTracker /\ [][NextTracker]_vars

\* ----------------------------------------------------------------- SpecMain

notBrowserMain == <<storeVars, readVars, agentVars>>

\* main from the start of its goroutines to its exit: the signal, the runner
\* and health server goroutines, a handler of a running gateway that browses,
\* and the deferred Close of the Browser
NextMain ==
    \/ Signal /\ UNCHANGED notMain
    \/ \E n \in GatewayNames : RunnerBegins(n) /\ UNCHANGED notMain
    \/ \E n \in GatewayNames, err \in Errs : RunnerStops(n, err) /\ UNCHANGED notMain
    \/ \E n \in GatewayNames : RunnerFails(n) /\ UNCHANGED notMain
    \/ HealthStops /\ UNCHANGED notMain
    \/ mainSignalled /\ UNCHANGED notMain
    \/ mainWait /\ UNCHANGED notMain
    \/ mainClose /\ UNCHANGED notBrowserMain
    \/ CloseWait(Main) /\ UNCHANGED notBrowser
    \/ WatchdogStopped /\ UNCHANGED notBrowser
    \/ CloseLock(Main) /\ UNCHANGED notBrowser
    \/ killLocked(Main) /\ mainExits /\ UNCHANGED notBrowserMain
    \/ /\ \E n \in GatewayNames : rpc[n] = "started"
       /\ BrowseCall(Handler, <<"e", ".", "x">>)
       /\ UNCHANGED notBrowser
    \/ AcquireLock(Handler) /\ UNCHANGED notBrowser
    \/ \E ok \in BOOLEAN : AcquireRun(Handler, ok) /\ UNCHANGED notBrowser
    \/ \E ok \in BOOLEAN : Navigate(Handler, ok) /\ UNCHANGED notBrowser
    \/ Touch(Handler) /\ UNCHANGED notBrowser

InitSpecMain ==
    /\ InitBrowser /\ NewSessionStore(TRUE) /\ NoReads /\ NewAgent(TRUE, TRUE, TRUE)
    /\ \E runners \in SUBSET GatewayNames, health \in BOOLEAN : mainStarted(runners, health)

SpecMain == InitSpecMain /\ [][NextMain]_vars

\* --------------------------------------------------------------- SpecBuffer
\* an Agent without a store: Process is remember's buffer step
NextBuffer ==
    \E w \in Workers, text \in Texts, from \in Senders :
        ProcessCall(w, text, from) /\ UNCHANGED storeVars /\ UNCHANGED notAgentStore

InitSpecBuffer ==
    NewSessionStore(FALSE) /\ InitBrowser /\ NoReads /\ NewAgent(TRUE, TRUE, FALSE) /\ NoTracker

SpecBuffer == InitSpecBuffer /\ [][NextBuffer]_vars

\* ---------------------------------------------------------------- SpecStore
NextStore ==
    \/ \E w \in Workers, k \in RawKeys :
          sent < MaxMsgs /\ AddMessage(w, k, sent + 1) /\ UNCHANGED notStore
    \/ \E w \in Workers, k \in SaveKeys : SaveCall(w, k) /\ UNCHANGED notStore
    \/ \E w \in Workers : SaveSnapshot(w) /\ UNCHANGED notStore
    \/ \E w \in Workers, ok \in BOOLEAN : SaveCreateTemp(w, ok) /\ UNCHANGED notStore
    \/ \E w \in Workers, ok, rm \in BOOLEAN : SaveWrite(w, ok, rm) /\ UNCHANGED notStore
    \/ \E w \in Workers, ok, rm \in BOOLEAN : SaveTempStep(w, ok, rm) /\ UNCHANGED notStore
    \/ \E w \in Workers, ok, rm \in BOOLEAN : SaveRename(w, ok, rm) /\ UNCHANGED notStore
    \/ Crash /\ UNCHANGED notStore

\* a store after NewSessionStore, beside a Browser nobody calls
InitSpecStore ==
    InitStore /\ InitBrowser /\ NoReads /\ NewAgent(TRUE, TRUE, FALSE) /\ NoTracker

SpecStore == InitSpecStore /\ [][NextStore]_vars

\* --------------------------------------------------------------- SpecMemory
\* the messages AddMessage is called with
Msgs == {1, 2}

\* the sessionKey arguments of its AddMessage and History calls
MemoryKeys == { <<"a", ":", "b">>, <<" ">> }

\* a store without a storage root, its writers and its readers
NextMemory ==
    \/ \E w \in Workers, k \in MemoryKeys, m \in Msgs :
          sent < MaxMsgs /\ AddMessage(w, k, m) /\ UNCHANGED notStore
    \/ \E w \in Workers : SaveSnapshot(w) /\ UNCHANGED notStore
    \/ \E w \in Workers, k \in MemoryKeys : History(w, k) /\ UNCHANGED <<browserVars, agentVars, mainVars>>
    \/ CallerWrites /\ UNCHANGED <<browserVars, agentVars, mainVars>>
    \/ \E w \in Workers : SessionCount(w) /\ UNCHANGED <<browserVars, agentVars, mainVars>>
    \/ \E w \in Workers : TotalMessageCount(w) /\ UNCHANGED <<browserVars, agentVars, mainVars>>

InitSpecMemory ==
    NewSessionStore(FALSE) /\ InitBrowser /\ NoReads /\ NewAgent(TRUE, TRUE, FALSE) /\ NoTracker

SpecMemory == InitSpecMemory /\ [][NextMemory]_vars

\* -------------------------------------------------------------- SpecBrowser
NextBrowser ==
    \/ \E w \in Workers, rawURL \in RawURLs : BrowseCall(w, rawURL) /\ UNCHANGED notBrowser
    \/ \E w \in Workers : AcquireLock(w) /\ UNCHANGED notBrowser
    \/ \E w \in Workers, ok \in BOOLEAN : AcquireRun(w, ok) /\ UNCHANGED notBrowser
    \/ \E w \in Workers, ok \in BOOLEAN : Navigate(w, ok) /\ UNCHANGED notBrowser
    \/ \E w \in Workers : Touch(w) /\ UNCHANGED notBrowser
    \/ \E e \in Executors : killLocked(e) /\ UNCHANGED notBrowser
    \/ ClockTick /\ UNCHANGED notBrowser
    \/ WatchdogTick /\ UNCHANGED notBrowser
    \/ WatchdogStopped /\ UNCHANGED notBrowser
    \/ KillIfIdle /\ UNCHANGED notBrowser
    \/ \E w \in Workers : CloseCall(w) /\ UNCHANGED notBrowser
    \/ \E w \in Workers : CloseWait(w) /\ UNCHANGED notBrowser
    \/ \E w \in Workers : CloseLock(w) /\ UNCHANGED notBrowser

\* a Browser after NewBrowser, beside a store nobody calls
InitSpecBrowser ==
    InitBrowser /\ NewSessionStore(TRUE) /\ NoReads /\ NewAgent(TRUE, TRUE, FALSE) /\ NoTracker

SpecBrowser == InitSpecBrowser /\ [][NextBrowser]_vars

\* ------------------------------------------------------------------ SpecNav
\* a Browser with an idle timeout of 30 seconds, one gateway handler that
\* calls Browse, and the watchdog; the wall clock runs in quarters of a minute
NextNav ==
    \/ BrowseCall(Handler, <<"e", ".", "x">>) /\ UNCHANGED notBrowser
    \/ AcquireLock(Handler) /\ UNCHANGED notBrowser
    \/ \E ok \in BOOLEAN : AcquireRun(Handler, ok) /\ UNCHANGED notBrowser
    \/ \E ok \in BOOLEAN : Navigate(Handler, ok) /\ UNCHANGED notBrowser
    \/ Touch(Handler) /\ UNCHANGED notBrowser
    \/ ClockQuarter(Handler) /\ UNCHANGED notBrowser
    \/ WatchdogTick /\ UNCHANGED notBrowser
    \/ KillIfIdle /\ UNCHANGED notBrowser
    \/ killLocked(WD) /\ UNCHANGED notBrowser

InitSpecNav ==
    InitBrowser /\ NewSessionStore(TRUE) /\ NoReads /\ NewAgent(TRUE, TRUE, FALSE) /\ NoTracker

SpecNav == InitSpecNav /\ [][NextNav]_vars

\* goroutine scheduling: a goroutine that can take its next step takes it, the
\* clock runs; whether a new Browse or Close call is made is up to the callers
FairBrowser ==
    /\ \A w \in Workers : WF_vars(AcquireLock(w) /\ UNCHANGED notBrowser)
    /\ \A w \in Workers : WF_vars((\E ok \in BOOLEAN : AcquireRun(w, ok)) /\ UNCHANGED notBrowser)
    /\ \A w \in Workers : WF_vars((\E ok \in BOOLEAN : Navigate(w, ok)) /\ UNCHANGED notBrowser)
    /\ \A w \in Workers : WF_vars(Touch(w) /\ UNCHANGED notBrowser)
    /\ \A w \in Workers : WF_vars(CloseWait(w) /\ UNCHANGED notBrowser)
    /\ \A w \in Workers : WF_vars(CloseLock(w) /\ UNCHANGED notBrowser)
    /\ \A e \in Executors : WF_vars(killLocked(e) /\ UNCHANGED notBrowser)
    /\ WF_vars(ClockTick /\ UNCHANGED notBrowser)
    /\ WF_vars(WatchdogTick /\ UNCHANGED notBrowser)
    /\ WF_vars(WatchdogStopped /\ UNCHANGED notBrowser)
    /\ WF_vars(KillIfIdle /\ UNCHANGED notBrowser)

FairSpecBrowser == SpecBrowser /\ FairBrowser

\* ------------------------------------------------------ Browser properties
\* instances whose process exists
Alive == {i \in Instances : proc[i] \in {"starting", "up"}}
Starting == {i \in Instances : proc[i] = "starting"}
FailedStarts == {i \in Instances : proc[i] = "failed"}
\* executors inside a section that b.mu guards
InCS(e) == pc[e] \in {"acq_run", "k_locked"}
LiveIdle == browserCtx # Nil /\ lastTouch # ZeroTime /\ now - lastTouch >= idleTimeout

\* every worker called Browse once while no handle was live, all of them were
\* waiting in acquireBrowser together, all acquireBrowser calls have returned and
\* no handle was torn down meanwhile
ConcurrentAcquiresDone ==
    /\ conc
    /\ ops = NumWorkers
    /\ acqRet = NumWorkers
    /\ \A i \in Instances : proc[i] # "killed"

\* C1 as stated: N concurrent Acquire calls on an absent handle make exactly one
\* start, and all N return the same handle or all N fail
C1_SingleFlightAsStated ==
    ConcurrentAcquiresDone =>
        /\ starts = 1
        /\ \/ Cardinality(FailedStarts) = 0 /\ Cardinality(acqGot) = 1
           \/ Cardinality(FailedStarts) = NumWorkers /\ acqGot = {}

\* C1 amended: starts are serialized (never two in progress); after N concurrent
\* Acquire calls on an absent handle all successful calls share one handle made by
\* one successful start, and every failed call made a start of its own
C1_SerializedAcquire ==
    /\ Cardinality(Starting) <= 1
    /\ ConcurrentAcquiresDone =>
          /\ Cardinality(acqGot) <= 1
          /\ starts = Cardinality(FailedStarts) + Cardinality(acqGot)
          /\ acqGot \subseteq {browserCtx}

\* C1 witness: a first start failed, the second concurrent caller started anew
\* and succeeded
C1_Witness ==
    /\ ConcurrentAcquiresDone
    /\ Cardinality(FailedStarts) = 1
    /\ Cardinality(acqGot) = 1

\* C2: at most one browser instance is started and not torn down; an instance is
\* being started only while no handle is stored, an instance that is up is the
\* stored handle, and every other started instance has been cancelled
C2_AtMostOneInstance ==
    /\ Cardinality(Alive) <= 1
    /\ \A i \in Instances :
          /\ proc[i] = "starting" => browserCtx = Nil
          /\ proc[i] = "up" => browserCtx = i
          /\ proc[i] \in {"failed", "killed"} => bCalls[i] >= 1 /\ aCalls[i] >= 1
    /\ browserCtx # Nil => proc[browserCtx] = "up"

\* C2 witness: one instance was torn down and a later one is the stored handle
C2_Witness ==
    \E i, j \in Instances : proc[i] = "killed" /\ proc[j] = "up" /\ browserCtx = j

\* C5: acquireBrowser, KillIfIdle and Close run their guarded sections one at a
\* time, holding b.mu, and no instance has a cancel function invoked twice
C5_TeardownExclusive ==
    /\ Cardinality({e \in Executors : InCS(e)}) <= 1
    /\ \A e \in Executors : InCS(e) => mu = e
    /\ \A i \in Instances : bCalls[i] <= 1 /\ aCalls[i] <= 1

\* C5 witness: the watchdog tears a live handle down while one worker waits in
\* acquireBrowser and another waits in Close
C5_Witness ==
    /\ pc[WD] = "k_locked"
    /\ browserCtx # Nil
    /\ \E w, v \in Workers : pc[w] = "acq_lock" /\ pc[v] = "c_wait"

\* C6 as stated: in a running process a live handle untouched for the idle
\* threshold does not stay so for ever, it is evicted
C6_IdleHandleEvicted == []<>(panicked \/ ~LiveIdle)

\* C6, the part that holds: it is evicted while the watchdog has not been stopped
C6_EvictedWhileWatchdogRuns == []<>(panicked \/ watchdogStop \/ ~LiveIdle)

\* C7: the watchdog tears down only a handle that was last acquired or touched
\* at least the idle threshold ago
C7_NoEarlyEviction ==
    (pc[WD] = "k_locked" /\ browserCtx # Nil) =>
        lastTouch # ZeroTime /\ now - lastTouch >= idleTimeout

\* C7 witness: the watchdog checked a live handle that was touched less than the
\* threshold ago and left it alone
C7_Witness ==
    /\ ret = <<WD, "false">>
    /\ \A w \in Workers : pc[w] = "idle"
    /\ browserCtx # Nil
    /\ now > lastTouch
    /\ now - lastTouch < idleTimeout

\* C8: a failed start cancels both new contexts once, returns the start error
\* and leaves the Browser fields as they were when the call began: no handle, no
\* cancel functions, lastUsed unchanged
C8_FailedStartRollsBack ==
    [][\A w \in Workers :
          (pc[w] = "acq_run" /\ pc'[w] = "idle") =>
              /\ bCalls'[handle[w]] = 1
              /\ aCalls'[handle[w]] = 1
              /\ proc'[handle[w]] = "failed"
              /\ ret' = <<w, "err_start">>
              /\ Fields' = acqPre[w]
              /\ browserCtx' = Nil /\ allocCancel' = Nil /\ browserCancel' = Nil
              /\ mu' = NoOwner]_vars

\* C8 witness: after a failed start a later acquireBrowser made a fresh start
C8_Witness ==
    \E i, j \in Instances : i < j /\ proc[i] = "failed" /\ proc[j] = "up"

\* a Close call has returned and no acquireBrowser ran after it
ClosedNoAcquire ==
    /\ ret # <<>>
    /\ ret[2] = "closed"
    /\ \A w \in Workers : pc[w] \notin {"acq_run", "nav", "touch_ok", "touch_err"}

\* C9 as stated: no Close call faults, and once a Close has returned with no
\* Acquire after it the watchdog has stopped and no handle is live
C9_CloseIdempotent ==
    /\ ~panicked
    /\ ClosedNoAcquire => pc[WD] = "exited" /\ browserCtx = Nil

\* C10: a failed navigation and the return that follows it leave the stored
\* handle and its cancel functions alone and start or cancel nothing; the
\* wrapped navigation error is returned; acquireBrowser on a stored handle
\* returns that handle without a start
C10_NavFailureKeepsHandle ==
    [][\A w \in Workers :
          /\ (\/ pc[w] = "nav" /\ pc'[w] = "touch_err"
              \/ pc[w] = "touch_err" /\ pc'[w] = "idle") =>
                /\ UNCHANGED <<browserCtx, allocCancel, browserCancel>>
                /\ UNCHANGED <<proc, bCalls, aCalls, starts>>
          /\ (pc[w] = "touch_err" /\ pc'[w] = "idle") => ret' = <<w, "err_nav">>
          /\ (pc[w] = "acq_lock" /\ pc'[w] # "acq_lock" /\ browserCtx # Nil) =>
                /\ handle'[w] = browserCtx
                /\ starts' = starts
                /\ pc'[w] = "nav"]_vars

\* C10 witness: a worker's Browse returned the navigation error and its next
\* Browse acquired the same, only, instance
C10_Witness ==
    \E w \in Workers :
        /\ ret = <<w, "err_nav">>
        /\ pc[w] = "nav"
        /\ starts = 1
        /\ handle[w] = browserCtx
        /\ proc[handle[w]] = "up"

\* C3: the file at a target path is at every moment absent or a complete
\* snapshot: no step of Save, and no crash between two steps, removes a target
\* file or changes it, except the rename, which replaces it in one step by the
\* complete snapshot the renaming Save took
C3_TargetAbsentOrComplete ==
    [][/\ DOMAIN disk \subseteq DOMAIN disk'
       /\ \A n \in DOMAIN disk' :
             /\ disk'[n].bytes = "full"
             /\ \/ n \in DOMAIN disk /\ disk'[n] = disk[n]
                \/ \E w \in Workers :
                      /\ spc[w] = "rename"
                      /\ n = sanitizeSessionFilename(KeyOf(w))
                      /\ disk'[n] = File(KeyOf(w), snap[w], "full")]_vars

\* C3 witness: the process crashed in a Save of the two-message snapshot of a
\* key whose target file still holds the complete one-message snapshot
C3_Witness ==
    /\ crashes = 1
    /\ \E o \in orphans :
          /\ o.msgs = <<1, 2>>
          /\ sanitizeSessionFilename(o.key) \in DOMAIN disk
          /\ disk[sanitizeSessionFilename(o.key)] = File(o.key, <<1>>, "full")

\* C4: when every AddMessage call went to one key and all of them returned
\* nil, with no crash and no direct Save, the target file of the key holds the
\* message sequence of the session in memory
C4_DiskHoldsMemory ==
    (/\ persistent
     /\ crashes = 0
     /\ saves = 0
     /\ ~failed
     /\ sent > 0
     /\ \A w \in Workers : spc[w] = "idle") =>
        \A k \in DOMAIN sessions :
            DOMAIN sessions = {k} =>
                /\ sanitizeSessionFilename(k) \in DOMAIN disk
                /\ disk[sanitizeSessionFilename(k)] = File(k, sessions[k], "full")

\* the targets the claim names: blank, a scheme other than http and https, no host
FailsValidation(rawURL) ==
    LET value == TrimSpace(rawURL)
        full  == IF Contains(value, SchemeSep) THEN value ELSE HttpsPrefix \o value
    IN  \/ value = <<>>
        \/ ParseScheme(full) \notin {<<"h", "t", "t", "p">>, <<"h", "t", "t", "p", "s">>}
        \/ ParseHost(full) = <<>>

\* normalizeURL rejects every such target
ValidationRejects == \A u \in RawURLs : FailsValidation(u) => ~normalizeURL(u).ok

\* C20: a target that fails validation is rejected by normalizeURL, and a Browse
\* call that returns the validation error returns in its first step: the worker
\* never enters acquireBrowser, nothing is started or cancelled, and the stored
\* handle, the cancel functions, lastUsed and the mutex are as before
C20_InvalidTargetTouchesNothing ==
    [][(/\ ops' # ops
        /\ ret' # <<>>
        /\ ret'[2] = "err_url"
        /\ (ret' # ret \/ pc' = pc)) =>
           /\ pc' = pc
           /\ UNCHANGED <<Fields, mu, lastTouch>>
           /\ UNCHANGED <<proc, starts, bCalls, aCalls, handle>>
           /\ ValidationRejects]_vars

\* C20 witness: Browse returned the validation error while a handle was live
C20_Witness ==
    /\ ret # <<>>
    /\ ret[2] = "err_url"
    /\ browserCtx # Nil
    /\ lastUsed # ZeroTime
    /\ starts = 1
    /\ \A w \in Workers : pc[w] = "idle"

\* the messages of a sequence
Range(seq) == {seq[i] : i \in 1..Len(seq)}

\* C11: an AddMessage call that returns an error leaves the session map as it
\* is, with the message in the session of its key; every Save takes as its
\* snapshot the whole session in memory, so a Save after the failed call has the
\* message in its snapshot, and a successful rename makes exactly that snapshot
\* the target file
C11_FailedPersistKeepsMessage ==
    [][\A w \in Workers :
          /\ (/\ spc[w] # "idle" /\ spc'[w] = "idle" /\ crashes' = crashes
              /\ skey[w][1] = "AddMessage"
              /\ sret' # <<w, "AddMessage", "nil">>) =>
                /\ sret' \in {<<w, "AddMessage", "err">>, <<w, "AddMessage", "ErrInvalid">>}
                /\ sessions' = sessions
                /\ skey[w][3] \in Range(sessions[skey[w][2]])
          /\ (spc[w] = "save" /\ spc'[w] = "create") =>
                snap'[w] = sessions[KeyOf(w)]
          /\ (spc[w] = "rename" /\ spc'[w] = "idle" /\ sret' = <<w, CallOf(w), "nil">>) =>
                disk'[sanitizeSessionFilename(KeyOf(w))] =
                    File(KeyOf(w), snap[w], "full")]_vars

\* C11 witness: of two AddMessage calls on one key one returned an error, a
\* later one returned nil, and the target file holds both messages
C11_Witness ==
    /\ failed
    /\ crashes = 0
    /\ saves = 0
    /\ sent = 2
    /\ sret # <<>>
    /\ sret[2] = "AddMessage"
    /\ sret[3] = "nil"
    /\ \A w \in Workers : spc[w] = "idle"
    /\ \E k \in DOMAIN sessions :
          /\ DOMAIN sessions = {k}
          /\ sanitizeSessionFilename(k) \in DOMAIN disk
          /\ disk[sanitizeSessionFilename(k)] = File(k, <<1, 2>>, "full")

IsPrefix(p, q) == Len(p) <= Len(q) /\ SubSeq(q, 1, Len(p)) = p

\* C12: no step removes a session or changes the messages a session holds; an
\* AddMessage call puts its message at the end of the session of its key, also
\* when the session holds an equal message, and changes no other session;
\* History returns the session as it is, so the elements History returned are a
\* prefix of the session at every later moment and of every later result
C12_AppendOnly ==
    [][/\ \A k \in DOMAIN sessions :
             k \in DOMAIN sessions' /\ IsPrefix(sessions[k], sessions'[k])
       /\ \A w \in Workers :
             (sent' # sent /\ spc[w] = "idle" /\ spc'[w] = "save") =>
                LET key == skey'[w][2]
                    old == IF key \in DOMAIN sessions THEN sessions[key] ELSE <<>>
                IN  /\ sessions'[key] = Append(old, skey'[w][3])
                    /\ \A k \in DOMAIN sessions' \ {key} :
                          k \in DOMAIN sessions /\ sessions'[k] = sessions[k]
       /\ (reads' # reads /\ cnt' = <<>>) =>
             seen' = (IF hist'.key \in DOMAIN sessions THEN sessions[hist'.key] ELSE <<>>)
       /\ hist.backing # "nil" => IsPrefix(seen, sessions[hist.key])
       /\ hist'.backing # "nil" => IsPrefix(seen', sessions'[hist'.key])]_vars

\* C12 witness: History returned one message, and an equal message was appended
\* to that session afterwards
C12_Witness ==
    /\ hist.backing # "nil"
    /\ seen = <<1>>
    /\ sessions[hist.key] = <<1, 1>>

\* C13: an AddMessage call leaves the slice History returned as it is; a write
\* of the caller to that slice leaves every session as it is
C13_HistoryIsCopy ==
    [][/\ sent' # sent => hist' = hist
       /\ (~hist.written /\ hist'.written) =>
             /\ sessions' = sessions
             /\ hist'.val # seen]_vars

\* C13 witness: the caller wrote to the slice it got, a message was appended
\* after History returned, and the session holds the messages as appended
C13_Witness ==
    /\ hist.written
    /\ hist.val = <<0>>
    /\ sessions[hist.key] = <<1, 2>>

\* C14: no session in memory is empty, SessionCount returns the number of
\* sessions of the state it is taken in and TotalMessageCount the sum of the
\* session lengths of that state
C14_CountsOfOneState ==
    [][/\ \A k \in DOMAIN sessions : sessions[k] # <<>>
       /\ \A k \in DOMAIN sessions' : sessions'[k] # <<>>
       /\ (reads' # reads /\ cnt' # <<>> /\ cnt'[1] = "SessionCount") =>
             cnt'[2] = Cardinality(DOMAIN sessions)
       /\ (reads' # reads /\ cnt' # <<>> /\ cnt'[1] = "TotalMessageCount") =>
             /\ cnt'[2] = SumLen(sessions, DOMAIN sessions)
             /\ cnt'[2] >= Cardinality(DOMAIN sessions)]_vars

\* C14 witness: TotalMessageCount returned 1 while a second AddMessage call,
\* which had created its session with its message, was still in Save
C14_Witness ==
    /\ cnt = <<"TotalMessageCount", 1>>
    /\ Cardinality(DOMAIN sessions) = 2
    /\ \E w \in Workers : spc[w] = "save"

\* how often a message is in a session; 0 when there is no such session
Count(id, key) ==
    IF key \in DOMAIN sessions
    THEN Cardinality({i \in 1..Len(sessions[key]) : sessions[key][i] = id})
    ELSE 0

\* the key as the claim derives it: non-empty channel and chat, else a user id
\* that is present, else global
StatedKey(msg) ==
    IF msg.channel # <<>> /\ msg.chat # <<>>
    THEN msg.channel \o <<":">> \o msg.chat
    ELSE IF msg.user # <<>> THEN UserPrefix \o msg.user ELSE Global

\* C15 as stated: the message of a returned Process call is once in the session
\* of the key derived from non-empty identifiers, and once in global
C15_StoredUnderStatedKey ==
    \A m \in done :
        /\ Count(m.id, StatedKey(m)) = 1
        /\ Count(m.id, Global) = 1

\* C15 amended: the key is derived from the identifiers that are non-blank after
\* trimming, and trimmed; the message of a returned Process call is once in the
\* session of that key, once in global, and in no other session; when no Process
\* call is in flight every message of every session is in global
C15_StoredUnderKeyAndGlobal ==
    /\ \A m \in done :
          /\ Count(m.id, NormalKey(messageSessionKey(m))) = 1
          /\ Count(m.id, Global) = 1
          /\ \A k \in DOMAIN sessions :
                Count(m.id, k) > 0 => k \in {Global, NormalKey(messageSessionKey(m))}
    /\ (\A w \in Workers : apc[w] = "idle") =>
          \A k \in DOMAIN sessions : Range(sessions[k]) \subseteq Range(sessions[Global])

\* C15 witness: two Process calls have returned, one with the key of a channel
\* and chat and one whose blank channel leaves only global
C15_Witness ==
    /\ \A w \in Workers : apc[w] = "idle"
    /\ \E m, n \in done :
          /\ messageSessionKey(m) = <<"t", ":", "1">>
          /\ n.channel = <<" ">>
          /\ sessions[Global] = <<m.id, n.id>>

\* C16: the buffer never holds more than maxMemory messages, and it holds the
\* most recently appended ones in the order they were appended
C16_BufferHoldsNewest ==
    /\ Len(memory) <= maxMemory
    /\ Len(memory) = (IF processed < maxMemory THEN processed ELSE maxMemory)
    /\ \A i \in 1..Len(memory) : memory[i] = processed - Len(memory) + i

\* C16 witness: more messages than maxMemory were appended
C16_Witness ==
    /\ processed > maxMemory + 1
    /\ Len(memory) = maxMemory
    /\ memory[1] = processed - maxMemory + 1
    /\ memory[maxMemory] = processed

\* C17 as stated: a rename never replaces the file of another session key
C17_DistinctKeysDistinctFiles ==
    [][\A w \in Workers :
          (spc[w] = "rename" /\ spc'[w] = "idle" /\ disk' # disk) =>
              LET name == sanitizeSessionFilename(KeyOf(w))
              IN  name \in DOMAIN disk => disk[name].key = KeyOf(w)]_vars

\* the file names the claim says are rejected
HasSeparator(name) == \E i \in 1..Len(name) : name[i] \in {"/", "\\"}
Rejected(name) == HasSeparator(name) \/ name = <<".">> \/ name \in {<<>>, <<".", ".">>}

\* C18: a Save of a key whose sanitized name has a separator, is "." or is not
\* local returns os.ErrInvalid in its first step and creates and renames
\* nothing; every temp file is made, and every target file replaced, for a name
\* without a separator, that is directly inside the storage root
C18_SaveStaysInsideRoot ==
    [][\A w \in Workers :
          /\ (spc[w] = "save" /\ spc'[w] # "save" /\ persistent /\ crashes' = crashes
                /\ Rejected(sanitizeSessionFilename(KeyOf(w)))) =>
                /\ sret' = <<w, CallOf(w), "ErrInvalid">>
                /\ UNCHANGED <<disk, tmp, orphans>>
          /\ (spc[w] # "idle" /\ spc'[w] # spc[w] /\ (disk' # disk \/ tmp'[w] # tmp[w])) =>
                ~HasSeparator(sanitizeSessionFilename(KeyOf(w)))]_vars

\* C18 witness: a Save of "a/b" returned os.ErrInvalid beside a file that the
\* Save of a local name wrote
C18_Witness ==
    /\ sret # <<>>
    /\ sret[3] = "ErrInvalid"
    /\ <<"a", "/", "b">> \in DOMAIN sessions
    /\ DOMAIN disk # {}
    /\ \A n \in DOMAIN disk : ~HasSeparator(n)

\* C19 as stated: the append of an AddMessage call whose key persistence
\* rejects leaves the session map as it was
C19_InvalidKeyNoSideEffect ==
    [][\A w \in Workers :
          (/\ persistent
           /\ spc[w] = "idle" /\ spc'[w] = "save"
           /\ skey'[w][1] = "AddMessage"
           /\ InvalidFilename(sanitizeSessionFilename(skey'[w][2]))) =>
              sessions' = sessions]_vars

\* ---------------------------------------------------------------- restart
\* C21 as stated: when every call of the old process has returned and none of
\* them returned an error, the store the restart builds on the same storage
\* root holds every session of the old store with the same messages in the
\* same order, and counts the same sessions and messages
C21_RestartRoundTrip ==
    [][(/\ crashes' # crashes
        /\ ~failed
        /\ \A w \in Workers : spc[w] = "idle") =>
           /\ \A k \in DOMAIN sessions :
                 k \in DOMAIN sessions' /\ sessions'[k] = sessions[k]
           /\ Cardinality(DOMAIN sessions') = Cardinality(DOMAIN sessions)
           /\ SumLen(sessions', DOMAIN sessions') = SumLen(sessions, DOMAIN sessions)]_vars

\* ------------------------------------------------------- Process properties
\* C24: a Process call whose text is blank after trimming returns the empty
\* reply and no error in the step it is made; the buffer, the sessions, the
\* storage root, the Browser and its processes stay as they were, and the
\* caller moves to no statement that calls remember, Fetch or Browse
C24_BlankTextChangesNothing ==
    [][(/\ acall' # <<>>
        /\ acall'[2]
        /\ (acall' # acall \/ (apc' = apc /\ spc' = spc /\ pc' = pc))) =>
          /\ aret' = <<acall'[1], EmptyReply, "nil">>
          /\ UNCHANGED <<memory, processed, apc, amsg, done>>
          /\ UNCHANGED <<sessions, disk, tmp, orphans, spc, sent>>
          /\ UNCHANGED browserVars]_vars

\* C24 witness: a blank text was answered while the buffer held a message and
\* the browser was up
C24_Witness ==
    /\ acall # <<>>
    /\ acall[2]
    /\ aret = <<acall[1], EmptyReply, "nil">>
    /\ memory # <<>>
    /\ browserCtx # Nil
    /\ Global \in DOMAIN sessions

\* the outcomes of Fetch that are an error
FetchErrors == {"err_url", "err_fetch"}

\* the call of worker w is a browse command with a target whose lightweight
\* fetch, when a fetch tool is configured, was made and returned an error
BrowseAfterFetch(w) ==
    /\ amsg[w] # <<>>
    /\ ~(HasPrefix(ToLower(amsg[w].text), FetchCmd) /\ webFetch)
    /\ HasPrefix(ToLower(amsg[w].text), BrowseCmd)
    /\ Target(amsg[w].text, BrowseCmd) # <<>>
    /\ webFetch => amsg[w].fetch \in FetchErrors
    /\ ~webFetch => amsg[w].fetch = "none"

\* C25: every call of Browse, and every step a handler takes inside Browse
\* (acquireBrowser, the start of a browser, the navigation), belongs to a browse
\* command whose fetch was tried first and failed; a call whose fetch returned
\* text, and a fetch command, never get there. (Fetch never returns a blank
\* text without an error.)
C25_BrowserOnlyAfterFetchFailed ==
    [][\A w \in Workers :
          (\/ (apc[w] = "browse" /\ apc'[w] # "browse" /\ ops' # ops)
           \/ pc'[w] # "idle"
           \/ (pc[w] # "idle" /\ pc'[w] = "idle")) => BrowseAfterFetch(w)]_vars

\* C25 witness: one browse command was answered by the fetch tool without a
\* start of the browser, and the next one is in acquireBrowser after its fetch
\* failed
C25_Witness ==
    /\ webFetch
    /\ starts = 0
    /\ aret # <<>>
    /\ aret[2] = PageReply("fetch", <<"e", ".", "x">>, RouterPage)
    /\ \E w \in Workers :
          /\ pc[w] = "acq_lock"
          /\ apc[w] = "browsing"
          /\ amsg[w].fetch = "err_fetch"

\* the fetch command word alone
FetchWord == <<"/", "f", "e", "t", "c", "h">>

\* C26 as stated: with a fetch tool, a call whose text is the fetch command
\* word alone or followed by whitespace only returns the usage hint of /fetch
C26_BareFetchGetsUsageHint ==
    [][\A w \in Workers :
          (/\ webFetch
           /\ apc[w] # "idle" /\ apc'[w] = "idle"
           /\ ToLower(amsg[w].text) = FetchWord) =>
              aret' = <<w, FetchUsage, "nil">>]_vars

\* C22: when Process returns for a text that is no tool command, its error is
\* nil and its reply is the line built from the channel and the buffer length
\* remember returned, or for the status command from the buffer length, the
\* number of sessions and the number of AddMessage calls made so far; the
\* message is in the buffer at the place remember put it. None of these depends
\* on what a Save returned or on what the storage root holds.
C22_ReplyIgnoresPersistence ==
    [][\A w \in Workers :
          (apc[w] # "idle" /\ apc'[w] = "idle") =>
              LET m == amsg[w]
              IN  /\ aret' = <<w,
                               IF HasPrefix(ToLower(m.text), StatusCmd)
                               THEN StatusReply(<<m.stats[1], 2, sent>>)
                               ELSE ReadyReply(m.channel, m.size),
                               "nil">>
                  /\ HasPrefix(ToLower(m.text), StatusCmd) => m.stats[1] \in m.size..processed
                  /\ m.size <= Len(memory)
                  /\ memory[m.size] = m.id]_vars

\* C22 witness: every Save failed, nothing is in the storage root, and the
\* status command was answered with both messages counted
C22_Witness ==
    /\ failed
    /\ disk = NoFiles
    /\ \A w \in Workers : apc[w] = "idle"
    /\ aret # <<>>
    /\ aret[3] = "nil"
    /\ aret[2] = StatusReply(<<2, 2, 4>>)
    /\ memory = <<1, 2>>

\* worker w holds the error its last AddMessage call returned to remember
HoldsPersistError(w) ==
    /\ apc[w] \in {"wait_key", "wait_global"}
    /\ spc[w] = "idle"
    /\ sret # <<>>
    /\ sret[1] = w
    /\ sret[3] # "nil"

\* C23 as stated: a Process call in which an AddMessage or a Fetch returned an
\* error returns an error itself (no statement of Process, remember, the
\* SessionStore, Fetch or Browse writes a log record for an error)
C23_NoErrorDropped ==
    [][\A w \in Workers :
          (apc[w] # "idle" /\ apc'[w] = "idle"
             /\ (HoldsPersistError(w) \/ amsg[w].fetch \in FetchErrors)) =>
                aret'[3] # "nil"]_vars

\* ---------------------------------------------------------- URL validation
\* the rule the claim states: trimmed, https:// prepended without "://", and
\* accepted iff the result parses with scheme http or https and a host
StatedURL(rawURL) ==
    LET value == TrimSpace(rawURL)
    IN  IF Contains(value, SchemeSep) THEN value ELSE HttpsPrefix \o value
StatedAccepts(rawURL) ==
    /\ ParseOK(StatedURL(rawURL))
    /\ ParseScheme(StatedURL(rawURL)) \in {<<"h", "t", "t", "p">>, <<"h", "t", "t", "p", "s">>}
    /\ ParseHost(StatedURL(rawURL)) # <<>>

\* both functions follow the stated rule on every target, with these examples
SameValidation ==
    /\ \A u \in RawURLs :
          /\ Normalized[u] = WebNormalized[u]
          /\ WebNormalized[u].ok = StatedAccepts(u)
          /\ WebNormalized[u].ok => WebNormalized[u].url = StatedURL(u)
    /\ WebNormalized[<<"e", ".", "x">>] = [ok |-> TRUE, url |-> HttpsPrefix \o <<"e", ".", "x">>]
    /\ ~WebNormalized[<<>>].ok
    /\ ~WebNormalized[<<"f", "t", "p", ":", "/", "/", "x">>].ok
    /\ ~WebNormalized[HttpsPrefix].ok

\* C30: normalizeURL and normalizeWebURL give the same result on every target
\* and follow the stated rule; whenever Process hands the target of a browse
\* command to Browse after Fetch, Browse rejects it iff Fetch rejected it
C30_SameURLValidation ==
    [][\A w \in Workers :
          (apc[w] = "browse" /\ apc'[w] # "browse" /\ ops' # ops) =>
              /\ SameValidation
              /\ webFetch =>
                    ((amsg[w].fetch = "err_url") <=> (pc'[w] = "idle" /\ ret' = <<w, "err_url">>))]_vars

\* C30 witness: a browse command whose target https:// was rejected by Fetch
\* and then by Browse, after one whose target e.x both accepted
C30_Witness ==
    /\ webFetch
    /\ aret # <<>>
    /\ aret[2] = EmptyReply
    /\ aret[3] = "browse failed: err_url"
    /\ ret = <<aret[1], "err_url">>
    /\ browserCtx # Nil

\* ---------------------------------------------------- statusTracker properties
\* C27: after any sequence of setRunning and setError calls, ready returns
\* true iff no record is configured or some configured record is running
C27_ReadyIffSomeGatewayRuns ==
    [][(tret' # <<>> /\ tret'[1] = "ready" /\ UNCHANGED <<gateways, tpc, tcopy>>) =>
          tret'[2] = (\/ \A n \in DOMAIN gateways : ~gateways[n].configured
                      \/ \E n \in DOMAIN gateways :
                            gateways[n].configured /\ gateways[n].running)]_vars

\* C27 witness: of two configured gateways one has stopped with an error, the
\* other is running, and ready returned true
C27_Witness ==
    /\ DOMAIN gateways = GatewayNames
    /\ gateways["telegram"] = [configured |-> TRUE, running |-> FALSE, lastError |-> "e"]
    /\ gateways["whatsapp"].running
    /\ tret = <<"ready", TRUE>>

\* C28 as stated: the ready value of every snapshot result is the readiness of
\* the records in the same result
C28_SnapshotIsPointInTime ==
    [][(tpc = "payload" /\ tpc' = "idle") =>
          tret'[2].ready = readyOf(tret'[2].gateways)]_vars

\* --------------------------------------------------------- main properties
\* the goroutines main added to its WaitGroup have all returned
GoroutinesReturned ==
    /\ \A n \in GatewayNames : rpc[n] \in {"none", "returned"}
    /\ hpc \in {"none", "returned"}

\* C29: Close is called, and each of its steps runs (the stop of the watchdog,
\* the teardown of the handle), only after the signal and after every runner
\* goroutine and the health server goroutine have returned
C29_CloseAfterRunners ==
    [][(pc'[Main] # "idle" \/ pc[Main] # "idle" \/ mpc' \in {"closing", "exited"}
          \/ watchdogStop') =>
          sig /\ GoroutinesReturned]_vars

\* C29 witness: after the signal both runners, one of them stopped by an
\* error, and the health server returned; then Close tore down the browser a
\* handler had started
C29_Witness ==
    /\ mpc = "exited"
    /\ sig
    /\ \A n \in GatewayNames : rpc[n] = "returned"
    /\ hpc = "returned"
    /\ gateways["telegram"].lastError = "e"
    /\ ret = <<Main, "closed">>
    /\ proc[1] = "killed"


\* ------------------------------------------------------- reply properties
\* C31: every reply of Process made of a tool's text (fetch and browse paths)
\* is that text when it has at most 1200 units, and else its first 1200 units
\* followed by "...", so that it is never longer than 1203 units
C31_ToolReplyCapped ==
    (aret # <<>> /\ aret[2].kind = "page") =>
        LET page == aret[2].page
            text == aret[2].text
        IN  /\ Len(page) <= 1200 => text = page
            /\ Len(page) > 1200 =>
                  /\ Len(text) = 1203
                  /\ \A i \in 1..1200 : text[i] = page[i]
                  /\ \A i \in 1201..1203 : text[i] = "."
            /\ Len(text) <= 1203

\* C31 witness: Process returned the text of the browser, which was longer
\* than 1200 units, cut and marked
C31_Witness ==
    /\ aret # <<>>
    /\ aret[2].kind = "page"
    /\ aret[2].tool = "browser"
    /\ Len(aret[2].page) = 1201
    /\ Len(aret[2].text) = 1203
    /\ aret[3] = "nil"


\* ------------------------------------------------------ cleanup properties
\* C32: when a Save that had created its temp file returns an error, the temp
\* file is gone and no target file has changed; when it returns nil, no temp
\* file of the call is left in the storage root
C32_FailedSaveRemovesTemp ==
    [][\A w \in Workers :
          (/\ spc[w] \in {"write", "chmod", "sync", "close", "rename"}
           /\ spc'[w] = "idle"
           /\ crashes' = crashes) =>
             /\ tmp'[w] = NoFile
             /\ orphans' = orphans
             /\ sret'[3] # "nil" => disk' = disk]_vars


\* ---------------------------------------------------- navigation properties
\* C33: the idle check never tears down the handle a Browse call has acquired
\* and is still navigating on
C33_InFlightNotEvicted ==
    [][(pc[WD] = "k_locked" /\ pc'[WD] = "select") =>
          \A w \in Workers :
             ~(pc[w] = "nav" /\ handle[w] # Nil /\ handle[w] = browserCtx)]_vars


\* ------------------------------------------------------ watchdog properties
\* a Close call is between its stop of the watchdog and its teardown
Closing == \E w \in Workers : pc[w] \in {"c_wait", "c_lock", "k_locked"}

\* C34: whenever a handle is live the watchdog goroutine is still running, so
\* that the handle remains subject to the idle check (a Close that has stopped
\* the watchdog and is about to tear the handle down aside)
C34_LiveHandleIsWatched == (browserCtx # Nil /\ ~Closing) => pc[WD] # "exited"


\* --------------------------------------------------- termination properties
\* C35: every Browse and Close call that was made eventually returns
C35_EveryCallReturns == \A w \in Workers : (pc[w] # "idle") ~> (pc[w] = "idle")

\* every call eventually returns or the process has died of the panic of a
\* second close(b.watchdogStop)
EveryCallReturnsOrPanics ==
    \A w \in Workers : (pc[w] # "idle") ~> (pc[w] = "idle" \/ panicked)


\* ---------------------------------------------------------- Stats properties
\* C36: whenever no handle is live the last-used time is the zero value, so
\* that Stats never reports Active = false with a LastUsed that is not zero
C36_NoHandleNoLastUsed == browserCtx = Nil => lastUsed = ZeroTime


\* ----------------------------------------------------------- order properties
\* C37: two messages Process has handled stand in every stored session that
\* holds both in the order they have in the Agent's in-memory buffer
C37_StoredOrderIsBufferOrder ==
    \A k \in DOMAIN sessions :
       \A i, j \in 1..Len(sessions[k]) :
          \A p, q \in 1..Len(memory) :
             (i < j /\ memory[p] = sessions[k][i] /\ memory[q] = sessions[k][j]) => p < q

=============================================================================
